---- MODULE Spec2Model ----
(***************************************************************************)
(* The /chat request handler of app.py (Sofia AI backend): daily quota     *)
(* check and reset, intent auto-detection, web-search quota, and the       *)
(* primary (Groq) / secondary (Gemini) provider chain.                     *)
(*                                                                         *)
(* Strings are sequences of one-character strings, so that lower(),        *)
(* strip(), startswith(), substring tests and split() are computed as the  *)
(* Python code computes them.  Dates are UTC day numbers; strftime and     *)
(* strptime with '%Y-%m-%d' (app.py:735,743) are inverse on dates, so the  *)
(* stored string is represented by the day number it denotes.              *)
(***************************************************************************)
EXTENDS Integers, Sequences, FiniteSets, TLC

(***************************************************************************)
(* Bounds of the model.                                                    *)
(***************************************************************************)
\* number of /chat requests of the user that can be in flight together
NumReq == 2
\* last UTC day the clock can reach (the user signs up on day 0)
MaxDay == 1
\* number of fragments a generated chat message is built from
MaxAtoms == 3
\* number of items the library can hold
MaxItems == 4
\* number of saved conversations
MaxConversations == 2
\* number of turns of the longest saved conversation
MaxTurns == 12
\* number of browsers that hold a session cookie of the user
NumBrowsers == 2
\* number of identifiers uuid.uuid4() can hand out
MaxUuid == 4
\* last half hour the clock can reach
MaxClock == 3

(***************************************************************************)
(* Program constants.                                                      *)
(***************************************************************************)
\* app.py:751  if messages_used >= 15
MESSAGE_LIMIT == 15
\* app.py:898  if searches_used >= 1
WEB_SEARCH_LIMIT == 1
\* app.py:328  timedelta(hours=1)
RESET_TOKEN_HOURS == 1

None == "None"

(***************************************************************************)
(* Python string operations on sequences of characters.                    *)
(***************************************************************************)
Whitespace == {" ", "\t", "\n"}

UpperToLower ==
    ("A" :> "a") @@ ("B" :> "b") @@ ("C" :> "c") @@ ("D" :> "d") @@ ("E" :> "e") @@ ("F" :> "f") @@
    ("G" :> "g") @@ ("H" :> "h") @@ ("I" :> "i") @@ ("J" :> "j") @@ ("K" :> "k") @@ ("L" :> "l") @@
    ("M" :> "m") @@ ("N" :> "n") @@ ("O" :> "o") @@ ("P" :> "p") @@ ("Q" :> "q") @@ ("R" :> "r") @@
    ("S" :> "s") @@ ("T" :> "t") @@ ("U" :> "u") @@ ("V" :> "v") @@ ("W" :> "w") @@ ("X" :> "x") @@
    ("Y" :> "y") @@ ("Z" :> "z")

UpperCase == DOMAIN UpperToLower

\* str.lower() on the letters A-Z; every other character is left as it is
lower(s) ==
    SubSeq([i \in 1..Len(s) |-> IF s[i] \in UpperCase THEN UpperToLower[s[i]] ELSE s[i]],
           1, Len(s))

RECURSIVE lstrip(_)
\* str.lstrip(): drop leading whitespace
lstrip(s) ==
    IF s = <<>> \/ s[1] \notin Whitespace THEN s ELSE lstrip(Tail(s))

RECURSIVE rstrip(_)
\* str.rstrip(): drop trailing whitespace
rstrip(s) ==
    IF s = <<>> \/ s[Len(s)] \notin Whitespace THEN s ELSE rstrip(SubSeq(s, 1, Len(s) - 1))

\* str.strip(): drop leading and trailing whitespace
strip(s) == rstrip(lstrip(s))

\* s.startswith(k)
startswith(s, k) ==
    /\ Len(k) <= Len(s)
    /\ \A j \in 1..Len(k) : s[j] = k[j]

\* k in s  (substring test)
contains(s, k) ==
    \/ k = <<>>
    \/ \E i \in 1..(Len(s) - Len(k) + 1) :
          s[i] = k[1] /\ \A j \in 2..Len(k) : s[i + j - 1] = k[j]

\* len(s.split()): number of maximal runs of non-whitespace characters
split_len(s) ==
    Cardinality({i \in 1..Len(s) :
                    /\ s[i] \notin Whitespace
                    /\ (i = 1 \/ s[i - 1] \in Whitespace)})

(***************************************************************************)
(* Keyword tables of should_auto_search (app.py:849-863).                  *)
(***************************************************************************)
security_keywords ==
    { <<"v", "u", "l", "n", "e", "r", "a", "b", "i", "l", "i", "t", "y">>,
      <<"m", "a", "l", "w", "a", "r", "e">>,
      <<"c", "y", "b", "e", "r", "s", "e", "c", "u", "r", "i", "t", "y">>,
      <<"s", "q", "l", " ", "i", "n", "j", "e", "c", "t", "i", "o", "n">>,
      <<"x", "s", "s">>,
      <<"c", "r", "o", "s", "s", "-", "s", "i", "t", "e", " ", "s", "c", "r", "i", "p", "t", "i", "n", "g">>,
      <<"c", "v", "e", "-">>,
      <<"z", "e", "r", "o", "-", "d", "a", "y">>,
      <<"p", "h", "i", "s", "h", "i", "n", "g">>,
      <<"r", "a", "n", "s", "o", "m", "w", "a", "r", "e">>,
      <<"d", "a", "t", "a", " ", "b", "r", "e", "a", "c", "h">>,
      <<"m", "i", "t", "i", "g", "a", "t", "i", "o", "n">>,
      <<"p", "e", "n", "t", "e", "s", "t">>,
      <<"e", "x", "p", "l", "o", "i", "t">> }

code_keywords ==
    { <<"d", "e", "f", " ">>,
      <<"f", "u", "n", "c", "t", "i", "o", "n", " ">>,
      <<"p", "u", "b", "l", "i", "c", " ", "c", "l", "a", "s", "s">>,
      <<"S", "E", "L", "E", "C", "T", " ", "*">>,
      <<"i", "m", "p", "o", "r", "t", " ">>,
      <<"r", "e", "q", "u", "i", "r", "e", "(">>,
      <<"c", "o", "n", "s", "t", " ">>,
      <<"l", "e", "t", " ">>,
      <<"v", "a", "r", " ">>,
      <<"<", "?", "p", "h", "p">>,
      <<"p", "u", "b", "l", "i", "c", " ", "s", "t", "a", "t", "i", "c", " ", "v", "o", "i", "d">>,
      <<"c", "o", "n", "s", "o", "l", "e", ".", "l", "o", "g">> }

general_search_keywords ==
    { <<"w", "h", "a", "t", " ", "i", "s">>,
      <<"w", "h", "o", " ", "i", "s">>,
      <<"w", "h", "e", "r", "e", " ", "i", "s">>,
      <<"w", "h", "e", "n", " ", "d", "i", "d">>,
      <<"h", "o", "w", " ", "t", "o">>,
      <<"l", "a", "t", "e", "s", "t">>,
      <<"n", "e", "w", "s">>,
      <<"i", "n", " ", "2", "0", "2", "5">>,
      <<"i", "n", " ", "2", "0", "2", "4">>,
      <<"e", "x", "p", "l", "a", "i", "n">>,
      <<"s", "u", "m", "m", "a", "r", "y", " ", "o", "f">>,
      <<"o", "v", "e", "r", "v", "i", "e", "w", " ", "o", "f">>,
      <<"c", "o", "m", "p", "a", "r", "e">> }

chat_keywords ==
    { <<"h", "i">>,
      <<"h", "e", "l", "l", "o">>,
      <<"h", "o", "w", " ", "a", "r", "e", " ", "y", "o", "u">>,
      <<"t", "h", "a", "n", "k", "s">>,
      <<"t", "h", "a", "n", "k", " ", "y", "o", "u">> }

\* app.py:135  PDF_KEYWORDS = {}
PDF_KEYWORDS == {}

youtube_com == <<"y", "o", "u", "t", "u", "b", "e", ".", "c", "o", "m">>
youtu_be == <<"y", "o", "u", "t", "u", ".", "b", "e">>

\* mutant: the code-token rule is tried before the security-term rule
should_auto_search_code_first(user_message) ==
    LET msg_lower == strip(lower(user_message))
    IN  IF \E k \in chat_keywords : startswith(msg_lower, k) THEN None
        ELSE IF \E k \in code_keywords : contains(user_message, k) THEN "code_security_scan"
        ELSE IF \E k \in security_keywords : contains(msg_lower, k) THEN "security_search"
        ELSE IF \E k \in general_search_keywords : contains(msg_lower, k) THEN "web_search"
        ELSE IF split_len(user_message) > 6 THEN "web_search"
        ELSE None

\* mutant: the greeting rule is tried last
should_auto_search_greeting_last(user_message) ==
    LET msg_lower == strip(lower(user_message))
    IN  IF \E k \in security_keywords : contains(msg_lower, k) THEN "security_search"
        ELSE IF \E k \in code_keywords : contains(user_message, k) THEN "code_security_scan"
        ELSE IF \E k \in general_search_keywords : contains(msg_lower, k) THEN "web_search"
        ELSE IF split_len(user_message) > 6 THEN "web_search"
        ELSE None

\* mutant: the code-token rule ignores letter case, like the other rules
should_auto_search_code_any_case(user_message) ==
    LET msg_lower == strip(lower(user_message))
    IN  IF \E k \in chat_keywords : startswith(msg_lower, k) THEN None
        ELSE IF \E k \in security_keywords : contains(msg_lower, k) THEN "security_search"
        ELSE IF \E k \in code_keywords : contains(msg_lower, lower(k)) THEN "code_security_scan"
        ELSE IF \E k \in general_search_keywords : contains(msg_lower, k) THEN "web_search"
        ELSE IF split_len(user_message) > 6 THEN "web_search"
        ELSE None

\* app.py:847-869; the value is None or the mode the request is escalated to
should_auto_search(user_message) ==
    LET msg_lower == strip(lower(user_message))
    IN  IF \E k \in chat_keywords : startswith(msg_lower, k) THEN None
        ELSE IF \E k \in security_keywords : contains(msg_lower, k) THEN "security_search"
        ELSE IF \E k \in code_keywords : contains(user_message, k) THEN "code_security_scan"
        ELSE IF \E k \in general_search_keywords : contains(msg_lower, k) THEN "web_search"
        ELSE IF split_len(user_message) > 6 THEN "web_search"
        ELSE None

\* app.py:883; file_data is TRUE when the request carries a non-empty fileData
is_multimodal(user_message, file_data) ==
    \/ file_data
    \/ contains(user_message, youtube_com)
    \/ contains(user_message, youtu_be)
    \/ \E k \in PDF_KEYWORDS : contains(lower(user_message), k)

(***************************************************************************)
(* Request inputs: the JSON body read at app.py:872-877.                   *)
(***************************************************************************)

\* ""
T_empty ==
    <<>>

\* " "
T_blank ==
    <<" ">>

\* "hi, explain xss"
T_greeting ==
    <<"h", "i", ",", " ", "e", "x", "p", "l", "a", "i", "n", " ", "x", "s", "s">>

\* "what is a zero-day exploit"
T_security ==
    <<"w", "h", "a", "t", " ", "i", "s", " ", "a", " ", "z", "e", "r", "o", "-", "d", "a", "y", " ", "e", "x", "p", "l", "o", "i", "t">>

\* "def f(x): pass"
T_code ==
    <<"d", "e", "f", " ", "f", "(", "x", ")", ":", " ", "p", "a", "s", "s">>

\* "tell me a joke"
T_plain ==
    <<"t", "e", "l", "l", " ", "m", "e", " ", "a", " ", "j", "o", "k", "e">>

\* "https://youtu.be/dQw4w9WgXcQ"
T_youtube ==
    <<"h", "t", "t", "p", "s", ":", "/", "/", "y", "o", "u", "t", "u", ".", "b", "e", "/", "d", "Q", "w", "4", "w", "9", "W", "g", "X", "c", "Q">>

\* "xss"
T_xss ==
    <<"x", "s", "s">>

Texts ==
    {T_empty, T_blank, T_greeting, T_security, T_code, T_plain, T_youtube}

\* fragments of generated chat messages:
\*   "hi ", "Thanks ", "history of ", "xss ", "CVE-2024 ", "what is the name of ", "def ", "SELECT * ", "select * ", "a b c d e f g ", "tcp ", " "
Atoms ==
    { <<"h", "i", " ">>,
      <<"T", "h", "a", "n", "k", "s", " ">>,
      <<"h", "i", "s", "t", "o", "r", "y", " ", "o", "f", " ">>,
      <<"x", "s", "s", " ">>,
      <<"C", "V", "E", "-", "2", "0", "2", "4", " ">>,
      <<"w", "h", "a", "t", " ", "i", "s", " ", "t", "h", "e", " ", "n", "a", "m", "e", " ", "o", "f", " ">>,
      <<"d", "e", "f", " ">>,
      <<"S", "E", "L", "E", "C", "T", " ", "*", " ">>,
      <<"s", "e", "l", "e", "c", "t", " ", "*", " ">>,
      <<"a", " ", "b", " ", "c", " ", "d", " ", "e", " ", "f", " ", "g", " ">>,
      <<"t", "c", "p", " ">>,
      <<" ">> }

RECURSIVE MessagesUpTo(_)
\* the concatenations of at most n fragments
MessagesUpTo(n) ==
    IF n = 0 THEN {<<>>}
    ELSE LET shorter == MessagesUpTo(n - 1)
         IN  shorter \cup {m \o a : m \in shorter, a \in Atoms}

Messages == MessagesUpTo(MaxAtoms)

Modes == {"chat", "web_search", "security_search", "code_security_scan"}

\* fileData / fileType of the request: no attachment, or a non-empty attachment
Files ==
    { [file_data |-> FALSE, file_type |-> ""],
      [file_data |-> TRUE, file_type |-> "application/pdf"],
      [file_data |-> TRUE, file_type |-> "application/msword"],
      [file_data |-> TRUE, file_type |-> "image/png"],
      [file_data |-> TRUE, file_type |-> "text/plain"] }

NoFile == {[file_data |-> FALSE, file_type |-> ""]}

\* k in file_type, for the MIME types of Files (app.py:991-993)
in_file_type(k, file_type) ==
    \/ k = "pdf" /\ file_type = "application/pdf"
    \/ k = "word" /\ file_type = "application/msword"
    \/ k = "image" /\ file_type = "image/png"

(***************************************************************************)
(* State.                                                                  *)
(***************************************************************************)
VARIABLES
    current_user,       \* flags of the logged-in user (User, app.py:98-106)
    SERPER_API_KEY,     \* TRUE when the search credential is configured
    GROQ_API_KEY,       \* TRUE when the primary provider's credential is configured
    users_collection,   \* the user's document: usage_counts and last_usage_reset
    utcnow,             \* the current UTC day
    req,                \* the /chat requests in flight, by worker slot
    library_collection, \* the library items, in insertion order
    threads,            \* the background summary tasks that were started
    library_search,     \* the last call of search_library and what it returned
    conversations_collection,   \* the saved conversations
    account,            \* the user's document: password, session and reset-token fields
    session,            \* the Flask session cookie of each browser
    auth_req,           \* the request to an account handler each browser has in flight
    uuid4,              \* the number of identifiers uuid.uuid4() has handed out
    clock,              \* datetime.utcnow(), in half hours
    auth_log            \* what the account handlers have done so far

\* the library, as used by the upload handler and by search_library
library_vars == <<library_collection, threads, library_search>>

\* accounts, sessions and password resets
auth_vars == <<account, session, auth_req, uuid4, clock, auth_log>>

vars == <<current_user, SERPER_API_KEY, GROQ_API_KEY, users_collection, utcnow, req,
          library_vars, conversations_collection, auth_vars>>

Slots == 1..NumReq

\* The locals of one run of chat(), and what the run has done so far:
\*   seen_at_limit   the document read at line 732 had messages >= 15
\*   was_reset       the run executed the reset of lines 739-745
\*   msg_incs, ws_incs, search_calls, primary_calls, secondary_calls
\*                   how often the run executed line 757, line 902, search_web,
\*                   call_api and generate_content
\*   library_calls   how often the run called search_library (line 890)
\*   inc_after_call  the run incremented a counter after a provider call
\*   primary_prompt, prompt_parts
\*                   the prompt given to the primary and to the secondary provider
\*   gemini_history, openai_history
\*                   the two encodings of the conversation history (app.py:906-927)
\*   attempts        the provider calls of the run in the order made: the
\*                   provider, whether the conversation history was sent with
\*                   the prompt, and what the call returned
IdleReq ==
    [ pc |-> "idle",
      today |-> 0,
      user_message |-> <<>>,
      file_data |-> FALSE,
      file_type |-> "",
      mode |-> None,
      request_mode |-> None,
      is_multimodal |-> FALSE,
      auto_detected |-> FALSE,
      web_search_context |-> None,
      library_search_context |-> None,
      ai_response |-> None,
      primary_prompt |-> None,
      prompt_parts |-> <<>>,
      primary_calls |-> 0,
      secondary_calls |-> 0,
      search_calls |-> 0,
      library_calls |-> 0,
      attempts |-> <<>>,
      seen_at_limit |-> FALSE,
      was_reset |-> FALSE,
      msg_incs |-> 0,
      ws_incs |-> 0,
      inc_after_call |-> FALSE,
      is_temporary |-> FALSE,
      gemini_history |-> <<>>,
      openai_history |-> <<>>,
      status |-> 0,
      response |-> None ]

\* mutant: the admin flag is not consulted
metered_ignores_admin == ~current_user.isPremium

\* app.py:731,895  not current_user.isPremium and not current_user.isAdmin
metered == ~current_user.isPremium /\ ~current_user.isAdmin

\* return jsonify(...), status
reply(q, status, response) ==
    [q EXCEPT !.pc = "done", !.status = status, !.response = response]

(***************************************************************************)
(* Daily usage limit check and reset (app.py:730-757).                     *)
(***************************************************************************)
\* app.py:738  if last_reset_date < today
needs_reset(last_reset_date, today) == last_reset_date < today

\* mutant: the comparison is > instead of >=
message_limit_reached_off_by_one(messages_used) == messages_used > MESSAGE_LIMIT

\* app.py:751  if messages_used >= 15
message_limit_reached(messages_used) == messages_used >= MESSAGE_LIMIT

\* mutant: the comparison is > instead of >=
search_limit_reached_off_by_one(searches_used) == searches_used > WEB_SEARCH_LIMIT

\* app.py:898  if searches_used >= 1
search_limit_reached(searches_used) == searches_used >= WEB_SEARCH_LIMIT

\* mutant: the reset forgets the webSearches counter
reset_usage_keeps_searches(doc, today) ==
    [doc EXCEPT !.usage_counts.messages = 0, !.last_usage_reset = today]

\* app.py:739-745  update_one({'_id': ...}, {'$set': {...}}): the filter is the _id alone
reset_usage(doc, today) ==
    [doc EXCEPT !.usage_counts = [messages |-> 0, webSearches |-> 0],
                !.last_usage_reset = today]

\* mutant: the increment is 2
inc_messages_by_two(doc) ==
    [doc EXCEPT !.usage_counts.messages = @ + 2]

\* app.py:757  {'$inc': {'usage_counts.messages': 1}}
inc_messages(doc) ==
    [doc EXCEPT !.usage_counts.messages = @ + 1]

\* app.py:902  {'$inc': {'usage_counts.webSearches': 1}}
inc_web_searches(doc) ==
    [doc EXCEPT !.usage_counts.webSearches = @ + 1]

\* app.py:748-757 on the document just read: deny with 429, or go on to the $inc
check_message_limit(q, user_data) ==
    IF message_limit_reached(user_data.usage_counts.messages)
    THEN reply(q, 429, "upgrade_required")
    ELSE [q EXCEPT !.pc = "inc"]

\* chat() is entered: app.py:731-738 with the find_one of line 732, and, when no
\* reset is due, the limit check of lines 748-755
Receive(r) ==
    /\ req[r].pc = "idle"
    /\ IF metered
       THEN LET user_data == users_collection
                today == utcnow
                q == [req[r] EXCEPT !.today = today,
                                    !.seen_at_limit =
                                        message_limit_reached(user_data.usage_counts.messages)]
            IN  IF needs_reset(user_data.last_usage_reset, today)
                THEN req' = [req EXCEPT ![r] = [q EXCEPT !.pc = "reset"]]
                ELSE req' = [req EXCEPT ![r] = check_message_limit(q, user_data)]
       ELSE req' = [req EXCEPT ![r].pc = "read"]
    /\ UNCHANGED <<current_user, SERPER_API_KEY, GROQ_API_KEY, users_collection, utcnow, library_vars, conversations_collection, auth_vars>>

\* app.py:739-745
Reset(r) ==
    /\ req[r].pc = "reset"
    /\ users_collection' = reset_usage(users_collection, req[r].today)
    /\ req' = [req EXCEPT ![r].pc = "refind", ![r].was_reset = TRUE]
    /\ UNCHANGED <<current_user, SERPER_API_KEY, GROQ_API_KEY, utcnow, library_vars, conversations_collection, auth_vars>>

\* app.py:746-755
Refind(r) ==
    /\ req[r].pc = "refind"
    /\ req' = [req EXCEPT ![r] = check_message_limit(@, users_collection)]
    /\ UNCHANGED <<current_user, SERPER_API_KEY, GROQ_API_KEY, users_collection, utcnow, library_vars, conversations_collection, auth_vars>>

\* app.py:757
IncMessages(r) ==
    /\ req[r].pc = "inc"
    /\ users_collection' = inc_messages(users_collection)
    /\ req' = [req EXCEPT ![r].pc = "read",
                          ![r].msg_incs = @ + 1,
                          ![r].inc_after_call =
                              @ \/ req[r].primary_calls + req[r].secondary_calls > 0]
    /\ UNCHANGED <<current_user, SERPER_API_KEY, GROQ_API_KEY, utcnow, library_vars, conversations_collection, auth_vars>>

(***************************************************************************)
(* Body of chat() (app.py:871-1018).                                       *)
(***************************************************************************)
\* search_library (app.py:827-845): None, the joined snippets, or the exception of
\* the truth test of a pymongo Collection at line 828, which is outside its try
search_library_results == {None, "library_snippets", "raise"}

\* what requests.post, raise_for_status or response.json can raise inside the
\* try block of search_web (app.py:804-807)
SerperExceptions == {"ConnectionError", "HTTPError"}

\* app.py:825  f"An error occurred during the web search: {e}"
search_web_error(e) ==
    IF e = "ConnectionError" THEN "search_error: ConnectionError"
    ELSE "search_error: HTTPError"

\* search_web (app.py:797-825) with the credential set: every outcome is a
\* non-empty string
search_web_results ==
    {"organic_results", "direct_answer", "no_results"}
        \cup {search_web_error(e) : e \in SerperExceptions}

\* call_api (app.py:783-795): the content of the first choice (which may be the
\* empty string), or None on a transport error or malformed response; without
\* the credential the provider rejects the call
call_api_results(key) ==
    IF key THEN {"groq_text", "", None} ELSE {None}

\* model.generate_content(...).text (app.py:1004-1005): a text, or an exception
generate_content_results == {"gemini_text", "raise"}

\* mutant: only None is false, the empty string is taken for an answer
truthy_unless_none(x) == x /= None

\* Python truth value of a string or None
truthy(x) == x /= None /\ x /= ""

\* app.py:892
wants_web_search(q) ==
    /\ q.request_mode \in {"web_search", "security_search"}
    /\ ~q.is_multimodal
    /\ strip(q.user_message) /= <<>>

\* app.py:892-904 up to the first access to the store or the search API
begin_web_search(q) ==
    IF ~wants_web_search(q) THEN [q EXCEPT !.pc = "primary"]
    ELSE IF ~SERPER_API_KEY
         THEN [q EXCEPT !.pc = "primary", !.web_search_context = "search_disabled"]
    ELSE IF metered THEN [q EXCEPT !.pc = "ws_find"]
    ELSE [q EXCEPT !.pc = "search_web"]

\* mutant: auto-detection runs whatever the requested mode is
ReadRequest_always_detects(r, texts, files, modes) ==
    /\ req[r].pc = "read"
    /\ \E user_message \in texts, f \in files, mode \in modes :
         LET multimodal == is_multimodal(user_message, f.file_data)
             auto_mode == IF ~multimodal THEN should_auto_search(user_message) ELSE None
             q == [req[r] EXCEPT !.user_message = user_message,
                                 !.file_data = f.file_data,
                                 !.file_type = f.file_type,
                                 !.mode = mode,
                                 !.is_multimodal = multimodal,
                                 !.auto_detected = (auto_mode /= None),
                                 !.request_mode = IF auto_mode /= None THEN auto_mode ELSE mode]
         IN  req' = [req EXCEPT ![r] = begin_web_search(q)]
    /\ UNCHANGED <<current_user, SERPER_API_KEY, GROQ_API_KEY, users_collection, utcnow, library_vars, conversations_collection, auth_vars>>

\* mutant: the library is searched for every request in a search mode
ReadRequest_searches_explicit(r, texts, files, modes) ==
    /\ req[r].pc = "read"
    /\ \E user_message \in texts, f \in files, mode \in modes :
         LET multimodal == is_multimodal(user_message, f.file_data)
             auto_mode == IF mode = "chat" /\ ~multimodal
                          THEN should_auto_search(user_message) ELSE None
             searches_library ==
                 (IF auto_mode /= None THEN auto_mode ELSE mode) \in {"web_search", "security_search"}
             q == [req[r] EXCEPT !.user_message = user_message,
                                 !.file_data = f.file_data,
                                 !.file_type = f.file_type,
                                 !.mode = mode,
                                 !.is_multimodal = multimodal,
                                 !.auto_detected = (auto_mode /= None),
                                 !.library_calls = IF searches_library THEN 1 ELSE 0,
                                 !.request_mode = IF auto_mode /= None THEN auto_mode ELSE mode]
         IN  \E lib \in (IF searches_library THEN search_library_results ELSE {None}) :
                req' = [req EXCEPT ![r] =
                          IF lib = "raise" THEN reply(q, 200, "internal_error")
                          ELSE begin_web_search([q EXCEPT !.library_search_context = lib])]
    /\ UNCHANGED <<current_user, SERPER_API_KEY, GROQ_API_KEY, users_collection, utcnow, library_vars, conversations_collection, auth_vars>>

\* app.py:872-894: the body is read, the mode auto-detected, the library searched
ReadRequest(r, texts, files, modes) ==
    /\ req[r].pc = "read"
    /\ \E user_message \in texts, f \in files, mode \in modes :
         LET multimodal == is_multimodal(user_message, f.file_data)
             auto_mode == IF mode = "chat" /\ ~multimodal
                          THEN should_auto_search(user_message) ELSE None
             searches_library == auto_mode \in {"web_search", "security_search"}
             q == [req[r] EXCEPT !.user_message = user_message,
                                 !.file_data = f.file_data,
                                 !.file_type = f.file_type,
                                 !.mode = mode,
                                 !.is_multimodal = multimodal,
                                 !.auto_detected = (auto_mode /= None),
                                 !.library_calls = IF searches_library THEN 1 ELSE 0,
                                 !.request_mode = IF auto_mode /= None THEN auto_mode ELSE mode]
         IN  \E lib \in (IF searches_library THEN search_library_results ELSE {None}) :
                req' = [req EXCEPT ![r] =
                          IF lib = "raise" THEN reply(q, 200, "internal_error")
                          ELSE begin_web_search([q EXCEPT !.library_search_context = lib])]
    /\ UNCHANGED <<current_user, SERPER_API_KEY, GROQ_API_KEY, users_collection, utcnow, library_vars, conversations_collection, auth_vars>>

\* mutant: the denial text is set but the search still runs
WsFind_falls_through(r) ==
    /\ req[r].pc = "ws_find"
    /\ LET searches_used == users_collection.usage_counts.webSearches
       IN  req' = [req EXCEPT ![r] =
                     IF searches_used >= WEB_SEARCH_LIMIT
                     THEN [@ EXCEPT !.pc = "search_web", !.web_search_context = "search_denied"]
                     ELSE [@ EXCEPT !.pc = "search_web"]]
    /\ UNCHANGED <<current_user, SERPER_API_KEY, GROQ_API_KEY, users_collection, utcnow, library_vars, conversations_collection, auth_vars>>

\* app.py:896-899
WsFind(r) ==
    /\ req[r].pc = "ws_find"
    /\ LET searches_used == users_collection.usage_counts.webSearches
       IN  req' = [req EXCEPT ![r] =
                     IF search_limit_reached(searches_used)
                     THEN [@ EXCEPT !.pc = "primary", !.web_search_context = "search_denied"]
                     ELSE [@ EXCEPT !.pc = "search_web"]]
    /\ UNCHANGED <<current_user, SERPER_API_KEY, GROQ_API_KEY, users_collection, utcnow, library_vars, conversations_collection, auth_vars>>

\* mutant: a search that failed is not counted
SearchWeb_free_on_error(r) ==
    /\ req[r].pc = "search_web"
    /\ \E result \in search_web_results :
         req' = [req EXCEPT ![r].web_search_context = result,
                            ![r].search_calls = @ + 1,
                            ![r].pc = IF metered /\ result \in {"organic_results", "direct_answer", "no_results"}
                                      THEN "ws_inc" ELSE "primary"]
    /\ UNCHANGED <<current_user, SERPER_API_KEY, GROQ_API_KEY, users_collection, utcnow, library_vars, conversations_collection, auth_vars>>

\* app.py:901 and 904
SearchWeb(r) ==
    /\ req[r].pc = "search_web"
    /\ \E result \in search_web_results :
         req' = [req EXCEPT ![r].web_search_context = result,
                            ![r].search_calls = @ + 1,
                            ![r].pc = IF metered THEN "ws_inc" ELSE "primary"]
    /\ UNCHANGED <<current_user, SERPER_API_KEY, GROQ_API_KEY, users_collection, utcnow, library_vars, conversations_collection, auth_vars>>

\* app.py:902
WsInc(r) ==
    /\ req[r].pc = "ws_inc"
    /\ users_collection' = inc_web_searches(users_collection)
    /\ req' = [req EXCEPT ![r].pc = "primary",
                          ![r].ws_incs = @ + 1,
                          ![r].inc_after_call =
                              @ \/ req[r].primary_calls + req[r].secondary_calls > 0]
    /\ UNCHANGED <<current_user, SERPER_API_KEY, GROQ_API_KEY, utcnow, library_vars, conversations_collection, auth_vars>>

\* one provider call: call_api (app.py:939, 956, 961) or generate_content
\* (app.py:1004, 1009)
attempt(provider, history, result) ==
    [provider |-> provider, history |-> history, result |-> result]

\* app.py:929-963: which prompt, if any, goes to the primary provider
primary_prompt_of(q) ==
    IF q.is_multimodal \/ strip(q.user_message) = <<>> THEN None
    ELSE IF q.request_mode = "code_security_scan" THEN "code_scan"
    ELSE IF truthy(q.web_search_context) \/ truthy(q.library_search_context)
         THEN "search_augmented"
    ELSE IF GROQ_API_KEY THEN "plain"
    ELSE None

\* mutant: a failed primary call is repeated once before the secondary is tried
Primary_tries_twice(r) ==
    /\ req[r].pc = "primary"
    /\ LET prompt == primary_prompt_of(req[r])
       IN  IF prompt = None
           THEN req' = [req EXCEPT ![r].pc = "secondary"]
           ELSE \E result \in call_api_results(GROQ_API_KEY) :
                  LET q == [req[r] EXCEPT !.primary_prompt = prompt,
                                          !.primary_calls = @ + 1,
                                          !.attempts = Append(@, attempt("primary", prompt = "plain", result)),
                                          !.ai_response = result]
                  IN  req' = [req EXCEPT ![r] =
                                IF truthy(result) THEN reply(q, 200, result)
                                ELSE IF q.primary_calls < 2 THEN q
                                ELSE [q EXCEPT !.pc = "secondary"]]
    /\ UNCHANGED <<current_user, SERPER_API_KEY, GROQ_API_KEY, users_collection, utcnow, library_vars, conversations_collection, auth_vars>>

\* mutant: when the primary provider fails the request is run again from the
\* quota increment
Primary_requeues(r) ==
    /\ req[r].pc = "primary"
    /\ LET prompt == primary_prompt_of(req[r])
       IN  IF prompt = None
           THEN req' = [req EXCEPT ![r].pc = "secondary"]
           ELSE \E result \in call_api_results(GROQ_API_KEY) :
                  LET q == [req[r] EXCEPT !.primary_prompt = prompt,
                                          !.primary_calls = @ + 1,
                                          !.attempts = Append(@, attempt("primary", prompt = "plain", result)),
                                          !.ai_response = result]
                  IN  req' = [req EXCEPT ![r] =
                                IF truthy(result) THEN reply(q, 200, result)
                                ELSE IF metered /\ q.msg_incs < 2 THEN [q EXCEPT !.pc = "inc"]
                                ELSE [q EXCEPT !.pc = "secondary"]]
    /\ UNCHANGED <<current_user, SERPER_API_KEY, GROQ_API_KEY, users_collection, utcnow, library_vars, conversations_collection, auth_vars>>

\* app.py:929-965 and 1014
Primary(r) ==
    /\ req[r].pc = "primary"
    /\ LET prompt == primary_prompt_of(req[r])
       IN  IF prompt = None
           THEN req' = [req EXCEPT ![r].pc = "secondary"]
           ELSE \E result \in call_api_results(GROQ_API_KEY) :
                  LET q == [req[r] EXCEPT !.primary_prompt = prompt,
                                          !.primary_calls = @ + 1,
                                          !.attempts = Append(@, attempt("primary", prompt = "plain", result)),
                                          !.ai_response = result]
                  IN  req' = [req EXCEPT ![r] =
                                IF truthy(result) THEN reply(q, 200, result)
                                ELSE [q EXCEPT !.pc = "secondary"]]
    /\ UNCHANGED <<current_user, SERPER_API_KEY, GROQ_API_KEY, users_collection, utcnow, library_vars, conversations_collection, auth_vars>>

\* the outcomes of prompt assembly: a prompt, the early return of line 983 or 988,
\* or an exception raised to the handler of line 1016
prompt(parts) == [kind |-> "prompt", parts |-> parts]
early_return(response) == [kind |-> "return", parts |-> <<response>>]
raised == [kind |-> "raise", parts |-> <<>>]

\* app.py:968-993: the parts of the secondary provider's prompt
prompt_parts_choices(q) ==
    LET base == IF q.user_message /= <<>> THEN <<"user_message">> ELSE <<>>
    IN  IF q.request_mode = "code_security_scan" THEN {prompt(<<"code_prompt">>)}
        ELSE IF truthy(q.web_search_context) \/ truthy(q.library_search_context)
             THEN {prompt(<<"context_prompt">>)}
        ELSE IF contains(q.user_message, youtube_com) \/ contains(q.user_message, youtu_be)
             THEN {prompt(<<"transcript">>), early_return("no_transcript")}
        ELSE IF \E k \in PDF_KEYWORDS : contains(lower(q.user_message), k)
             THEN {prompt(Append(base, "document")), early_return("no_download")}
        ELSE IF q.file_data
             THEN IF in_file_type("pdf", q.file_type)
                  THEN {prompt(Append(base, "pdf_text")), prompt(Append(base, ""))}
                  ELSE IF in_file_type("word", q.file_type)
                  THEN {prompt(Append(base, "docx_text")), prompt(Append(base, ""))}
                  ELSE IF in_file_type("image", q.file_type)
                  THEN {prompt(Append(base, "image")), raised}
                  ELSE {prompt(base)}
        ELSE {prompt(base)}

\* app.py:996-997
with_default_instruction(q, parts) ==
    IF /\ parts[Len(parts)] = "image"
       /\ ~(\E i \in 1..Len(parts) : parts[i] = "user_message" /\ strip(q.user_message) /= <<>>)
    THEN <<"Describe this image.">> \o parts
    ELSE parts

\* app.py:1000-1003: the history is left out of a context or code-scan prompt
sends_history(q) ==
    ~(\/ truthy(q.web_search_context)
      \/ truthy(q.library_search_context)
      \/ q.request_mode = "code_security_scan")

\* app.py:965-1007: the secondary provider's first attempt
Secondary(r) ==
    /\ req[r].pc = "secondary"
    /\ \E choice \in prompt_parts_choices(req[r]) :
         IF choice.kind = "return"
         THEN req' = [req EXCEPT ![r] = reply(@, 200, choice.parts[1])]
         ELSE IF choice.kind = "raise"
         THEN req' = [req EXCEPT ![r] = reply(@, 200, "internal_error")]
         ELSE IF choice.parts = <<>>
         THEN req' = [req EXCEPT ![r] = reply(@, 200, "please_ask")]
         ELSE \E result \in generate_content_results :
                LET q == [req[r] EXCEPT !.prompt_parts = with_default_instruction(req[r], choice.parts),
                                        !.attempts = Append(@, attempt("secondary", sends_history(req[r]), result)),
                                        !.secondary_calls = @ + 1]
                IN  req' = [req EXCEPT ![r] =
                              IF result = "raise" THEN [q EXCEPT !.pc = "retry"]
                              ELSE reply([q EXCEPT !.ai_response = result], 200, result)]
    /\ UNCHANGED <<current_user, SERPER_API_KEY, GROQ_API_KEY, users_collection, utcnow, library_vars, conversations_collection, auth_vars>>

\* mutant: the retry sends the same prompt as the first attempt
Retry_with_history(r) ==
    /\ req[r].pc = "retry"
    /\ \E result \in generate_content_results :
         LET text == IF result = "raise" THEN "apology" ELSE result
         IN  req' = [req EXCEPT ![r] =
                       reply([@ EXCEPT !.secondary_calls = @ + 1,
                                       !.attempts = Append(@, attempt("secondary", sends_history(req[r]), result)),
                                       !.ai_response = text], 200, text)]
    /\ UNCHANGED <<current_user, SERPER_API_KEY, GROQ_API_KEY, users_collection, utcnow, library_vars, conversations_collection, auth_vars>>

\* mutant: the text of the retry's exception is sent as the reply
Retry_leaks_exception(r) ==
    /\ req[r].pc = "retry"
    /\ \E result \in generate_content_results :
         req' = [req EXCEPT ![r] =
                   reply([@ EXCEPT !.secondary_calls = @ + 1,
                                   !.attempts = Append(@, attempt("secondary", FALSE, result)),
                                   !.ai_response = result], 200, result)]
    /\ UNCHANGED <<current_user, SERPER_API_KEY, GROQ_API_KEY, users_collection, utcnow, library_vars, conversations_collection, auth_vars>>

\* app.py:1008-1014: one retry with prompt_parts alone
Retry(r) ==
    /\ req[r].pc = "retry"
    /\ \E result \in generate_content_results :
         LET text == IF result = "raise" THEN "apology" ELSE result
         IN  req' = [req EXCEPT ![r] =
                       reply([@ EXCEPT !.secondary_calls = @ + 1,
                                       !.attempts = Append(@, attempt("secondary", FALSE, result)),
                                       !.ai_response = text], 200, text)]
    /\ UNCHANGED <<current_user, SERPER_API_KEY, GROQ_API_KEY, users_collection, utcnow, library_vars, conversations_collection, auth_vars>>

\* the reply is sent and the worker is free for the next request
Finish(r) ==
    /\ req[r].pc = "done"
    /\ req' = [req EXCEPT ![r] = IdleReq]
    /\ UNCHANGED <<current_user, SERPER_API_KEY, GROQ_API_KEY, users_collection, utcnow, library_vars, conversations_collection, auth_vars>>

\* UTC midnight
Tick ==
    /\ utcnow < MaxDay
    /\ utcnow' = utcnow + 1
    /\ UNCHANGED <<current_user, SERPER_API_KEY, GROQ_API_KEY, users_collection, req, library_vars, conversations_collection, auth_vars>>

(***************************************************************************)
(* Accounts: sessions (app.py:123-129, 285-313, 392-412) and password      *)
(* resets (app.py:315-375).                                                *)
(*                                                                         *)
(* One account is followed.  An identifier drawn from uuid.uuid4() is      *)
(* represented by the number of the draw, so two draws never give the same *)
(* identifier; 0 stands for a field that is absent (None) and WrongToken   *)
(* for a string that no draw produced.  The clock counts half hours.       *)
(***************************************************************************)
Browsers == 1..NumBrowsers

Absent == 0

WrongToken == 0 - 1

\* timedelta(hours=h), in ticks of the clock
timedelta_hours(h) == 2 * h

\* the e-mail addresses a request can hold: the user's, another one, none
Emails == {"user@example.com", "other@example.com", ""}

\* a browser that has never logged in holds no session keys
NoCookie == [user_id |-> None, session_id |-> Absent]

\* The locals of one run of an account handler and its outcome.
IdleAuthReq ==
    [ pc |-> "idle",
      route |-> None,
      token |-> Absent,
      new_password |-> "",
      new_session_id |-> Absent,
      status |-> 0,
      response |-> None ]

\* api_signup (app.py:254-268): the two draws are the verification token and
\* the first session_id; the document has no reset token.  auth_log holds, for
\* each identifier, when it was issued as a reset token (-1: never) and how
\* often it changed the password (counted up to 2).
InitAuth ==
    /\ account = [email |-> "user@example.com",
                  password |-> "secret",
                  is_verified |-> FALSE,
                  verification_token |-> 1,
                  session_id |-> 2,
                  password_reset_token |-> Absent,
                  reset_token_expires_at |-> Absent]
    /\ session = [b \in Browsers |-> NoCookie]
    /\ auth_req = [b \in Browsers |-> IdleAuthReq]
    /\ uuid4 = 2
    /\ clock = 0
    /\ auth_log = [issued |-> [t \in 1..MaxUuid |-> 0 - 1],
                   resets |-> [t \in 1..MaxUuid |-> 0]]

\* everything the account handlers leave alone
chat_vars == <<current_user, SERPER_API_KEY, GROQ_API_KEY, users_collection, utcnow, req,
               library_vars, conversations_collection>>

\* mutant: the session_id of the cookie is not compared with the stored one
stale_session_never(b) == FALSE

\* app.py:125-126  current_user.is_authenticated and
\*                 session.get('session_id') != current_user.session_id
\* (load_user reads the document again at every request, app.py:108-121)
stale_session(b) ==
    /\ session[b].user_id /= None
    /\ session[b].session_id /= account.session_id

\* flask_login.logout_user(): the user id leaves the cookie, the other keys stay
logout_user(cookie) == [cookie EXCEPT !.user_id = None]

\* flask_login.login_user(user_obj)
login_user(cookie) == [cookie EXCEPT !.user_id = account.email]

\* a browser sends its next request when the last one has been answered
ready(b) == auth_req[b].pc \in {"idle", "done"}

\* the handler of `route` returns
auth_reply(route, status, response) ==
    [IdleAuthReq EXCEPT !.pc = "done", !.route = route, !.status = status,
                        !.response = response]

\* app.py:127-129  logout_user(); flash(...); return redirect(url_for('login_page'))
\* The view function is not called.
LoggedOut(b, route) ==
    /\ session' = [session EXCEPT ![b] = logout_user(@)]
    /\ auth_req' = [auth_req EXCEPT
                      ![b] = auth_reply(route, 302, "logged_out_from_another_device")]
    /\ UNCHANGED <<account, uuid4>>

\* a handler that returns without a write; @login_required with an anonymous
\* current_user answers by the redirect of login_manager.unauthorized()
\* (login_view, app.py:95)
Answer(b, route, status, response) ==
    /\ auth_req' = [auth_req EXCEPT ![b] = auth_reply(route, status, response)]
    /\ UNCHANGED <<account, session, uuid4>>

\* verify_email (app.py:213-231)
VerifyEmail(b, token) ==
    /\ ready(b)
    /\ IF stale_session(b) THEN LoggedOut(b, "verify_email")
       ELSE IF token = Absent \/ account.verification_token /= token
       THEN Answer(b, "verify_email", 400, "invalid_verification_link")
       ELSE /\ account' = [account EXCEPT !.is_verified = TRUE,
                                          !.verification_token = Absent]
            /\ auth_req' = [auth_req EXCEPT
                              ![b] = auth_reply("verify_email", 200, "account_verified")]
            /\ UNCHANGED <<session, uuid4>>
    /\ UNCHANGED <<chat_vars, clock, auth_log>>

\* api_login (app.py:285-306): up to the update of the stored session_id
ApiLogin(b, email, password) ==
    /\ ready(b)
    /\ IF stale_session(b) THEN LoggedOut(b, "api_login")
       ELSE IF email = "" \/ password = ""
       THEN Answer(b, "api_login", 400, "enter_email_and_password")
       ELSE IF email = account.email /\ password = account.password
       THEN IF ~account.is_verified
            THEN Answer(b, "api_login", 403, "verify_your_email_first")
            ELSE /\ uuid4 < MaxUuid
                 /\ uuid4' = uuid4 + 1
                 /\ account' = [account EXCEPT !.session_id = uuid4 + 1]
                 /\ auth_req' = [auth_req EXCEPT
                                   ![b] = [IdleAuthReq EXCEPT
                                             !.pc = "login_respond",
                                             !.route = "api_login",
                                             !.new_session_id = uuid4 + 1]]
                 /\ UNCHANGED session
       ELSE Answer(b, "api_login", 401, "incorrect_email_or_password")
    /\ UNCHANGED <<chat_vars, clock, auth_log>>

\* api_login (app.py:308-311): login_user, session['session_id'] = new_session_id
\* and the response that carries the cookie
LoginRespond(b) ==
    /\ auth_req[b].pc = "login_respond"
    /\ session' = [session EXCEPT
                     ![b] = [login_user(@) EXCEPT
                               !.session_id = auth_req[b].new_session_id]]
    /\ auth_req' = [auth_req EXCEPT
                      ![b] = [@ EXCEPT !.pc = "done", !.status = 200,
                                       !.response = "logged_in"]]
    /\ UNCHANGED <<account, uuid4, chat_vars, clock, auth_log>>

\* logout_all_devices (app.py:398-407): up to the update of the stored session_id
LogoutAllDevices(b) ==
    /\ ready(b)
    /\ IF stale_session(b) THEN LoggedOut(b, "logout_all_devices")
       ELSE IF session[b].user_id = None THEN Answer(b, "logout_all_devices", 302, "unauthorized")
       ELSE /\ uuid4 < MaxUuid
            /\ uuid4' = uuid4 + 1
            /\ account' = [account EXCEPT !.session_id = uuid4 + 1]
            /\ auth_req' = [auth_req EXCEPT
                              ![b] = [IdleAuthReq EXCEPT
                                        !.pc = "logout_all_respond",
                                        !.route = "logout_all_devices",
                                        !.new_session_id = uuid4 + 1]]
            /\ UNCHANGED session
    /\ UNCHANGED <<chat_vars, clock, auth_log>>

\* logout_all_devices (app.py:408-409): logout_user and the response
LogoutAllRespond(b) ==
    /\ auth_req[b].pc = "logout_all_respond"
    /\ session' = [session EXCEPT ![b] = logout_user(@)]
    /\ auth_req' = [auth_req EXCEPT
                      ![b] = [@ EXCEPT !.pc = "done", !.status = 200,
                                       !.response = "logged_out_of_all_devices"]]
    /\ UNCHANGED <<account, uuid4, chat_vars, clock, auth_log>>

\* logout (app.py:392-396)
Logout(b) ==
    /\ ready(b)
    /\ IF stale_session(b) THEN LoggedOut(b, "logout")
       ELSE IF session[b].user_id = None THEN Answer(b, "logout", 302, "unauthorized")
       ELSE /\ session' = [session EXCEPT ![b] = logout_user(@)]
            /\ auth_req' = [auth_req EXCEPT ![b] = auth_reply("logout", 200, "logged_out")]
            /\ UNCHANGED <<account, uuid4>>
    /\ UNCHANGED <<chat_vars, clock, auth_log>>

\* get_user_info (app.py:377-390), as any view that is @login_required and
\* writes nothing to the account
GetUserInfo(b) ==
    /\ ready(b)
    /\ IF stale_session(b) THEN LoggedOut(b, "get_user_info")
       ELSE IF session[b].user_id = None THEN Answer(b, "get_user_info", 302, "unauthorized")
       ELSE Answer(b, "get_user_info", 200, "user_info")
    /\ UNCHANGED <<chat_vars, clock, auth_log>>

\* request_password_reset (app.py:315-348); the e-mail is sent by a thread
RequestPasswordReset(b, email) ==
    /\ ready(b)
    /\ IF stale_session(b)
       THEN LoggedOut(b, "request_password_reset") /\ UNCHANGED auth_log
       ELSE IF email = ""
       THEN Answer(b, "request_password_reset", 400, "email_required") /\ UNCHANGED auth_log
       ELSE IF email /= account.email
       THEN /\ Answer(b, "request_password_reset", 200, "reset_link_sent_if_account_exists")
            /\ UNCHANGED auth_log
       ELSE /\ uuid4 < MaxUuid
            /\ uuid4' = uuid4 + 1
            /\ account' = [account EXCEPT
                             !.password_reset_token = uuid4 + 1,
                             !.reset_token_expires_at =
                                 clock + timedelta_hours(RESET_TOKEN_HOURS)]
            /\ auth_log' = [auth_log EXCEPT !.issued[uuid4 + 1] = clock]
            /\ auth_req' = [auth_req EXCEPT
                              ![b] = auth_reply("request_password_reset", 200,
                                                "reset_link_sent_if_account_exists")]
            /\ UNCHANGED session
    /\ UNCHANGED <<chat_vars, clock>>

\* app.py:359-362  find_one({"password_reset_token": token,
\*                           "reset_token_expires_at": {"$gt": datetime.utcnow()}})
\* A document without the two fields matches no token.
find_reset_user(token) ==
    /\ account.password_reset_token /= Absent
    /\ account.password_reset_token = token
    /\ account.reset_token_expires_at > clock

\* reset_password (app.py:350-365): up to the find_one
ResetPassword(b, token, new_password) ==
    /\ ready(b)
    /\ IF stale_session(b) THEN LoggedOut(b, "reset_password")
       ELSE IF token = Absent \/ new_password = ""
       THEN Answer(b, "reset_password", 400, "token_and_new_password_required")
       ELSE IF ~find_reset_user(token)
       THEN /\ auth_req' = [auth_req EXCEPT
                              ![b] = [auth_reply("reset_password", 400,
                                                 "invalid_or_expired_token")
                                        EXCEPT !.token = token]]
            /\ UNCHANGED <<account, session, uuid4>>
       ELSE /\ auth_req' = [auth_req EXCEPT
                              ![b] = [IdleAuthReq EXCEPT
                                        !.pc = "reset_update",
                                        !.route = "reset_password",
                                        !.token = token,
                                        !.new_password = new_password]]
            /\ UNCHANGED <<account, session, uuid4>>
    /\ UNCHANGED <<chat_vars, clock, auth_log>>

\* reset_password (app.py:367-375): update_one by _id, $set the password and
\* $unset the token fields
ResetUpdate(b) ==
    /\ auth_req[b].pc = "reset_update"
    /\ account' = [account EXCEPT !.password = auth_req[b].new_password,
                                  !.password_reset_token = Absent,
                                  !.reset_token_expires_at = Absent]
    /\ auth_log' = [auth_log EXCEPT
                      !.resets[auth_req[b].token] = IF @ < 2 THEN @ + 1 ELSE @]
    /\ auth_req' = [auth_req EXCEPT
                      ![b] = [@ EXCEPT !.pc = "done", !.status = 200,
                                       !.response = "password_reset"]]
    /\ UNCHANGED <<session, uuid4, chat_vars, clock>>

\* time passes; a handler runs for much less than half an hour, so the clock
\* moves between requests
TickClock ==
    /\ \A b \in Browsers : ready(b)
    /\ clock < MaxClock
    /\ clock' = clock + 1
    /\ UNCHANGED <<account, session, auth_req, uuid4, auth_log, chat_vars>>

\* the tokens that were sent to the user by e-mail
issued_tokens == {t \in DOMAIN auth_log.issued : auth_log.issued[t] >= 0}

(***************************************************************************)
(* Specifications.                                                         *)
(***************************************************************************)
\* no call of search_library has been made
NoSearch == [user_id |-> None, query |-> <<>>, kind |-> None, items |-> <<>>]

\* api_signup (app.py:256-268) creates the document on day 0 with both counters 0.
\* The chat specifications do not follow the content of the library and of the
\* conversations: what search_library returns to chat() is drawn from
\* search_library_results, and a history is sent or not (sends_history).
Init ==
    /\ current_user \in [isPremium : BOOLEAN, isAdmin : BOOLEAN]
    /\ SERPER_API_KEY \in BOOLEAN
    /\ GROQ_API_KEY \in BOOLEAN
    /\ users_collection = [usage_counts |-> [messages |-> 0, webSearches |-> 0],
                           last_usage_reset |-> 0]
    /\ utcnow = 0
    /\ req = [r \in Slots |-> IdleReq]
    /\ library_collection = <<>>
    /\ threads = <<>>
    /\ library_search = NoSearch
    /\ conversations_collection = <<>>
    /\ InitAuth

\* the steps of a request once it has been received
Step(r) ==
    \/ Reset(r)
    \/ Refind(r)
    \/ IncMessages(r)
    \/ WsFind(r)
    \/ SearchWeb(r)
    \/ WsInc(r)
    \/ Primary(r)
    \/ Secondary(r)
    \/ Retry(r)
    \/ Finish(r)

\* requests are handled one at a time, with any body
ReceiveSerial(r) ==
    /\ \A s \in Slots : req[s].pc = "idle"
    /\ Receive(r)

Next ==
    \/ Tick
    \/ \E r \in Slots : ReceiveSerial(r)
    \/ \E r \in Slots : ReadRequest(r, Texts, Files, Modes)
    \/ \E r \in Slots : Step(r)

Spec == Init /\ [][Next]_vars

\* Requests of one metered user handled by concurrent workers.  The quota code
\* is the same for every body, so each request is the same short security
\* question in mode chat (it uses both counters), the library has no match, the
\* search returns results and the primary provider answers.
ConcurrentTexts == {T_xss}

InitConcurrent ==
    /\ Init
    /\ metered
    /\ SERPER_API_KEY
    /\ GROQ_API_KEY

ReadRequestConcurrent(r) ==
    /\ ReadRequest(r, ConcurrentTexts, NoFile, {"chat"})
    /\ req'[r].library_search_context = None
    /\ req'[r].pc /= "done"

SearchWebConcurrent(r) ==
    /\ SearchWeb(r)
    /\ req'[r].web_search_context = "organic_results"

PrimaryConcurrent(r) ==
    /\ Primary(r)
    /\ req'[r].response = "groq_text"

NextConcurrent ==
    \/ Tick
    \/ \E r \in Slots : Receive(r)
    \/ \E r \in Slots : Reset(r)
    \/ \E r \in Slots : Refind(r)
    \/ \E r \in Slots : IncMessages(r)
    \/ \E r \in Slots : ReadRequestConcurrent(r)
    \/ \E r \in Slots : WsFind(r)
    \/ \E r \in Slots : SearchWebConcurrent(r)
    \/ \E r \in Slots : WsInc(r)
    \/ \E r \in Slots : PrimaryConcurrent(r)
    \/ \E r \in Slots : Finish(r)

SpecConcurrent == InitConcurrent /\ [][NextConcurrent]_vars

\* The same requests when the user store can be unreachable: a find_one or
\* update_one of the quota section (app.py:732-757) is outside the try block of
\* app.py:871, so its exception leaves chat() and the framework answers 500;
\* those of the web-search branch (app.py:896, 902) are inside it.
UserStoreFails(r) ==
    /\ metered
    /\ req[r].pc \in {"idle", "reset", "refind", "inc", "ws_find", "ws_inc"}
    /\ req' = [req EXCEPT ![r] =
                 IF req[r].pc \in {"ws_find", "ws_inc"}
                 THEN reply(@, 200, "internal_error")
                 ELSE reply(@, 500, "uncaught_exception")]
    /\ UNCHANGED <<current_user, SERPER_API_KEY, GROQ_API_KEY, users_collection, utcnow, library_vars, conversations_collection, auth_vars>>

NextStoreFailure ==
    \/ NextConcurrent
    \/ \E r \in Slots : UserStoreFails(r)

SpecStoreFailure == InitConcurrent /\ [][NextStoreFailure]_vars

\* Auto-detection over generated messages: a premium user (no quota steps) sends
\* text requests in mode chat, one at a time; the library has no match, the
\* search returns results and the primary provider answers.
InitClassify ==
    /\ Init
    /\ current_user = [isPremium |-> TRUE, isAdmin |-> FALSE]
    /\ SERPER_API_KEY
    /\ GROQ_API_KEY

ReadRequestClassify(r) ==
    /\ ReadRequest(r, Messages, NoFile, {"chat"})
    /\ req'[r].library_search_context = None
    /\ req'[r].pc /= "done"

\* classification looks at one request only: they all come in on the first slot
ReceiveClassify(r) ==
    /\ \A s \in Slots : r <= s
    /\ ReceiveSerial(r)

NextClassify ==
    \/ \E r \in Slots : ReceiveClassify(r)
    \/ \E r \in Slots : ReadRequestClassify(r)
    \/ \E r \in Slots : SearchWebConcurrent(r)
    \/ \E r \in Slots : PrimaryConcurrent(r)
    \/ \E r \in Slots : Finish(r)

SpecClassify == InitClassify /\ [][NextClassify]_vars

(***************************************************************************)
(* The library: search_library (app.py:827-845).                           *)
(***************************************************************************)
\* app.py:835  .limit(3)
LIBRARY_SEARCH_LIMIT == 3

\* the logged-in user and another account
UserIds == {"u1", "u2"}

RECURSIVE re_split(_)
\* re.split(r'\s+', query): the pieces between the runs of whitespace; a query
\* that starts or ends with whitespace gives an empty first or last piece
re_split(s) ==
    IF \A i \in 1..Len(s) : s[i] \notin Whitespace THEN <<s>>
    ELSE LET i == CHOOSE i \in 1..Len(s) :
                      /\ s[i] \in Whitespace
                      /\ \A h \in 1..(i - 1) : s[h] \notin Whitespace
             j == CHOOSE j \in (i + 1)..(Len(s) + 1) :
                      /\ j = Len(s) + 1 \/ s[j] \notin Whitespace
                      /\ \A h \in i..(j - 1) : s[h] \in Whitespace
         IN  <<SubSeq(s, 1, i - 1)>> \o re_split(SubSeq(s, j, Len(s)))

\* the positions where a match of ".*" that starts at p can end: "." does not
\* match a newline (the query is run with the option i only)
dot_star(text, p) ==
    {e \in p..(Len(text) + 1) : \A i \in p..(e - 1) : text[i] /= "\n"}

\* the literal k (re.escape) matches at position p, letters compared without case
literal_at(text, p, k) ==
    /\ p + Len(k) - 1 <= Len(text)
    /\ \A j \in 1..Len(k) : lower(<<text[p + j - 1]>>) = lower(<<k[j]>>)

\* (?=.*k) at position p
lookahead(text, p, k) ==
    \E e \in dot_star(text, p) : literal_at(text, e, k)

RECURSIVE match_from(_, _, _, _)
\* app.py:831  '.*'.join(f'(?=.*{re.escape(k)})' for k in keywords), matched at
\* position p from the n-th keyword on
match_from(text, p, keywords, n) ==
    /\ lookahead(text, p, keywords[n])
    /\ \/ n = Len(keywords)
       \/ \E e \in dot_star(text, p) : match_from(text, e, keywords, n + 1)

\* {"$regex": regex_pattern, "$options": "i"}: the pattern matches somewhere
regex_search(text, keywords) ==
    \E p \in 1..(Len(text) + 1) : match_from(text, p, keywords, 1)

\* the outcomes of search_library: None, the snippets of the items found, or the
\* exception of the truth test of line 828
no_match == [kind |-> None, items |-> <<>>]
snippets(items) == [kind |-> "library_snippets", items |-> items]
truth_test_raises == [kind |-> "raise", items |-> <<>>]

\* app.py:829-843: the first 3 items of the user whose extracted_text matches
search_library(user_id, query) ==
    LET keywords == re_split(query)
        matches(i) ==
            /\ library_collection[i].user_id = user_id
            /\ regex_search(library_collection[i].extracted_text, keywords)
        found == SelectSeq([i \in 1..Len(library_collection) |-> i], matches)
        items_cursor == SubSeq(found, 1, IF Len(found) < LIBRARY_SEARCH_LIMIT
                                          THEN Len(found) ELSE LIBRARY_SEARCH_LIMIT)
    IN  IF items_cursor /= <<>> THEN snippets(items_cursor) ELSE no_match

\* a document that holds both words in the other order, one that holds one
\* word, one that holds them on two lines, and one in other letter case:
\*   "beta gamma alpha", "alpha", "beta\nalpha", "Alpha BETA"
DocTexts ==
    { <<"b", "e", "t", "a", " ", "g", "a", "m", "m", "a", " ", "a", "l", "p", "h", "a">>,
      <<"a", "l", "p", "h", "a">>,
      <<"b", "e", "t", "a", "\n", "a", "l", "p", "h", "a">>,
      <<"A", "l", "p", "h", "a", " ", "B", "E", "T", "A">> }

\* "alpha beta", "beta  alpha", "ALPHA", " alpha", "", "alpha delta"
Queries ==
    { <<"a", "l", "p", "h", "a", " ", "b", "e", "t", "a">>,
      <<"b", "e", "t", "a", " ", " ", "a", "l", "p", "h", "a">>,
      <<"A", "L", "P", "H", "A">>,
      <<" ", "a", "l", "p", "h", "a">>,
      <<>>,
      <<"a", "l", "p", "h", "a", " ", "d", "e", "l", "t", "a">> }

\* a stored item whose summary is done
stored_item(user_id, extracted_text) ==
    [user_id |-> user_id,
     extracted_text |-> extracted_text,
     ai_summary |-> "summary",
     ai_summary_status |-> "completed"]

\* the items of the user, and one item of the other account
StoredItems ==
    {stored_item("u1", t) : t \in DocTexts}
        \cup {stored_item("u2", <<"b", "e", "t", "a", " ", "g", "a", "m", "m", "a", " ", "a", "l", "p", "h", "a">>)}

RECURSIVE LibrariesUpTo(_)
\* the libraries of at most n stored items
LibrariesUpTo(n) ==
    IF n = 0 THEN {<<>>}
    ELSE LET smaller == LibrariesUpTo(n - 1)
         IN  smaller \cup {Append(l, item) : l \in smaller, item \in StoredItems}

\* the call search_library(user_id, query) (app.py:890), on any library
SearchLibrary ==
    /\ \E user_id \in UserIds, query \in Queries :
         \E result \in {search_library(user_id, query), truth_test_raises} :
            library_search' = [user_id |-> user_id, query |-> query,
                               kind |-> result.kind, items |-> result.items]
    /\ UNCHANGED <<current_user, SERPER_API_KEY, GROQ_API_KEY, users_collection, utcnow, req,
                   library_collection, threads, conversations_collection, auth_vars>>

InitLibrary ==
    /\ current_user = [isPremium |-> FALSE, isAdmin |-> FALSE]
    /\ SERPER_API_KEY = TRUE
    /\ GROQ_API_KEY = TRUE
    /\ users_collection = [usage_counts |-> [messages |-> 0, webSearches |-> 0],
                           last_usage_reset |-> 0]
    /\ utcnow = 0
    /\ req = [r \in Slots |-> IdleReq]
    /\ library_collection \in LibrariesUpTo(MaxItems)
    /\ threads = <<>>
    /\ library_search = NoSearch
    /\ conversations_collection = <<>>
    /\ InitAuth

NextLibrary == SearchLibrary

SpecLibrary == InitLibrary /\ [][NextLibrary]_vars

(***************************************************************************)
(* Library upload and its background summary (app.py:568-666).             *)
(***************************************************************************)
\* app.py:639  extracted_text[:1000]
STORED_TEXT_LIMIT == 1000

\* s[:n]
truncate(s, n) == SubSeq(s, 1, IF Len(s) < n THEN Len(s) ELSE n)

\* app.py:622  "Image file."
image_file_text == <<"I", "m", "a", "g", "e", " ", "f", "i", "l", "e", ".">>

\* what the upload handler extracts (app.py:620-631): nothing, the text of an
\* image upload, a blank text, "alpha"
UploadTexts ==
    { <<>>, image_file_text, <<" ">>, <<"a", "l", "p", "h", "a">> }

\* get_ai_summary (app.py:568-587), with the AI key configured: every outcome
\* is a string, also when generate_content raised
get_ai_summary(text_content) ==
    IF text_content = <<>> \/ \A i \in 1..Len(text_content) : text_content[i] \in Whitespace
    THEN {"No text content to summarize."}
    ELSE {"summary", "Could not generate summary. Error"}

\* upload_library_item (app.py:601-666) for user "u1": the item is inserted as
\* pending; a text is handed to a new thread, anything else is marked completed
Upload ==
    /\ Len(library_collection) < MaxItems
    /\ \E extracted_text \in UploadTexts :
         LET new_id == Len(library_collection) + 1
             library_item == [user_id |-> "u1",
                              extracted_text |-> truncate(extracted_text, STORED_TEXT_LIMIT),
                              ai_summary |-> "Processing...",
                              ai_summary_status |-> "pending"]
         IN  IF extracted_text /= <<>> /\ extracted_text /= image_file_text
             THEN /\ library_collection' = Append(library_collection, library_item)
                  /\ threads' = Append(threads, [item_id |-> new_id,
                                                 text_content |-> extracted_text,
                                                 pc |-> "summarize",
                                                 summary |-> None])
             ELSE /\ library_collection' =
                        Append(library_collection,
                               [library_item EXCEPT !.ai_summary = "Not applicable.",
                                                    !.ai_summary_status = "completed"])
                  /\ threads' = threads
    /\ UNCHANGED <<current_user, SERPER_API_KEY, GROQ_API_KEY, users_collection, utcnow, req,
                   library_search, conversations_collection, auth_vars>>

\* run_ai_summary_in_background, app.py:591
Summarize(t) ==
    /\ threads[t].pc = "summarize"
    /\ \E summary \in get_ai_summary(threads[t].text_content) :
         threads' = [threads EXCEPT ![t].summary = summary, ![t].pc = "store"]
    /\ UNCHANGED <<current_user, SERPER_API_KEY, GROQ_API_KEY, users_collection, utcnow, req,
                   library_collection, library_search, conversations_collection, auth_vars>>

\* run_ai_summary_in_background, app.py:592-599: the truth test of the
\* collection ends the thread with an exception, or the summary is stored, or
\* the update fails and is logged
StoreSummary(t) ==
    /\ threads[t].pc = "store"
    /\ \E outcome \in {"raise", "stored", "update_failed"} :
         /\ threads' = [threads EXCEPT ![t].pc = IF outcome = "raise" THEN "died" ELSE "done"]
         /\ library_collection' =
               IF outcome = "stored"
               THEN [library_collection EXCEPT
                       ![threads[t].item_id].ai_summary = threads[t].summary,
                       ![threads[t].item_id].ai_summary_status = "completed"]
               ELSE library_collection
    /\ UNCHANGED <<current_user, SERPER_API_KEY, GROQ_API_KEY, users_collection, utcnow, req,
                   library_search, conversations_collection, auth_vars>>

InitUpload ==
    /\ current_user = [isPremium |-> FALSE, isAdmin |-> FALSE]
    /\ SERPER_API_KEY = TRUE
    /\ GROQ_API_KEY = TRUE
    /\ users_collection = [usage_counts |-> [messages |-> 0, webSearches |-> 0],
                           last_usage_reset |-> 0]
    /\ utcnow = 0
    /\ req = [r \in Slots |-> IdleReq]
    /\ library_collection = <<>>
    /\ threads = <<>>
    /\ library_search = NoSearch
    /\ conversations_collection = <<>>
    /\ InitAuth

NextUpload ==
    \/ Upload
    \/ \E t \in 1..Len(threads) : Summarize(t)
    \/ \E t \in 1..Len(threads) : StoreSummary(t)

SpecUpload == InitUpload /\ [][NextUpload]_vars

(***************************************************************************)
(* The conversation history given to the providers (app.py:906-927).       *)
(***************************************************************************)
\* app.py:916  recent_conversation['messages'][-10:]
HISTORY_LIMIT == 10

\* mutant: the window is the first 10 turns
past_messages_oldest(messages) ==
    SubSeq(messages, 1, IF Len(messages) < HISTORY_LIMIT THEN Len(messages) ELSE HISTORY_LIMIT)

\* app.py:916  messages[-10:]
past_messages(messages) ==
    SubSeq(messages,
           IF Len(messages) > HISTORY_LIMIT THEN Len(messages) - HISTORY_LIMIT + 1 ELSE 1,
           Len(messages))

\* app.py:911-914  find_one({"user_id": ...}, sort=[("timestamp", -1)]): the set
\* holding the user's conversation with the latest timestamp, or no element
recent_conversation(user_id) ==
    {c \in {conversations_collection[i] : i \in 1..Len(conversations_collection)} :
        /\ c.user_id = user_id
        /\ \A i \in 1..Len(conversations_collection) :
              conversations_collection[i].user_id = user_id =>
                  conversations_collection[i].timestamp <= c.timestamp}

\* app.py:918-921
gemini_turn(msg) ==
    [role |-> IF msg.sender = "user" THEN "user" ELSE "model", parts |-> <<msg.text>>]

\* app.py:919, 922-923
openai_turn(msg) ==
    [role |-> IF msg.sender = "user" THEN "user" ELSE "assistant", content |-> msg.text]

\* the i-th turn of a saved conversation whose first turn was sent by `first`
saved_turn(i, first) ==
    [sender |-> IF i % 2 = 1 THEN first ELSE (IF first = "user" THEN "ai" ELSE "user"),
     text |-> <<ToString(i)>>]

\* a conversation as save_chat stores it (app.py:501-519): it has at least one turn
saved_conversation(user_id, n, first, timestamp) ==
    [user_id |-> user_id,
     messages |-> [i \in 1..n |-> saved_turn(i, first)],
     timestamp |-> timestamp]

\* lengths of saved conversations: around the window and up to MaxTurns
TurnCounts == {n \in {1, HISTORY_LIMIT, HISTORY_LIMIT + 1, MaxTurns} : n <= MaxTurns}

\* the stores of at most MaxConversations conversations, saved at different times
ConversationStores ==
    {st \in UNION {[1..k -> {saved_conversation(u, n, first, t) :
                                u \in UserIds, n \in TurnCounts,
                                first \in {"user", "ai"}, t \in 1..MaxConversations}]
                   : k \in 0..MaxConversations} :
        \A i, j \in DOMAIN st : i /= j => st[i].timestamp /= st[j].timestamp}

\* app.py:906-927 for the logged-in user "u1": the two histories are filled from
\* the most recent conversation unless the request is temporary, the user has
\* no conversation or the store fails (the handler of line 924); the message of
\* the request is appended to openai_history
FetchHistory(r) ==
    /\ \E is_temporary \in BOOLEAN, user_message \in {T_plain}, store_fails \in BOOLEAN :
         LET found == IF is_temporary \/ store_fails THEN {} ELSE recent_conversation("u1")
             turns == IF found = {} THEN <<>>
                      ELSE past_messages((CHOOSE c \in found : TRUE).messages)
         IN  req' = [req EXCEPT
                       ![r].is_temporary = is_temporary,
                       ![r].user_message = user_message,
                       ![r].gemini_history = [i \in 1..Len(turns) |-> gemini_turn(turns[i])],
                       ![r].openai_history =
                           Append([i \in 1..Len(turns) |-> openai_turn(turns[i])],
                                  [role |-> "user", content |-> user_message])]
    /\ UNCHANGED <<current_user, SERPER_API_KEY, GROQ_API_KEY, users_collection, utcnow,
                   library_vars, conversations_collection, auth_vars>>

InitHistory ==
    /\ current_user = [isPremium |-> FALSE, isAdmin |-> FALSE]
    /\ SERPER_API_KEY = TRUE
    /\ GROQ_API_KEY = TRUE
    /\ users_collection = [usage_counts |-> [messages |-> 0, webSearches |-> 0],
                           last_usage_reset |-> 0]
    /\ utcnow = 0
    /\ req = [r \in Slots |-> IdleReq]
    /\ library_collection = <<>>
    /\ threads = <<>>
    /\ library_search = NoSearch
    /\ conversations_collection \in ConversationStores
    /\ InitAuth

\* the history depends on one request only: they all come in on the first slot
NextHistory == \E r \in Slots : (\A s \in Slots : r <= s) /\ FetchHistory(r)

SpecHistory == InitHistory /\ [][NextHistory]_vars

(***************************************************************************)
(* Accounts: the specifications.  One free user, as in InitConcurrent; the *)
(* chat handler is not called.                                             *)
(***************************************************************************)
\* Sessions: the browsers of the user log in, look at pages and log out; the
\* handlers of different browsers interleave.
NextSession ==
    \/ \E b \in Browsers, token \in {Absent, 1, WrongToken} : VerifyEmail(b, token)
    \/ \E b \in Browsers, email \in Emails, password \in {"secret", "wrong", ""} :
          ApiLogin(b, email, password)
    \/ \E b \in Browsers : LoginRespond(b)
    \/ \E b \in Browsers : LogoutAllDevices(b)
    \/ \E b \in Browsers : LogoutAllRespond(b)
    \/ \E b \in Browsers : Logout(b)
    \/ \E b \in Browsers : GetUserInfo(b)

SpecSession == InitConcurrent /\ [][NextSession]_vars

\* Password resets: reset links are requested and used from the browsers while
\* time passes; the handlers of different browsers interleave.
NextReset ==
    \/ TickClock
    \/ \E b \in Browsers, email \in Emails : RequestPasswordReset(b, email)
    \/ \E b \in Browsers, token \in issued_tokens \cup {Absent, WrongToken},
          new_password \in {"new1", "new2", ""} :
          ResetPassword(b, token, new_password)
    \/ \E b \in Browsers : ResetUpdate(b)

SpecReset == InitConcurrent /\ [][NextReset]_vars

\* The same when the server handles one request at a time: a request is
\* received, and time passes, only while no request is in flight.
NextResetSerial ==
    \/ (\A b \in Browsers : ready(b)) /\ NextReset
    \/ \E b \in Browsers : ResetUpdate(b)

SpecResetSerial == InitConcurrent /\ [][NextResetSerial]_vars

(***************************************************************************)
(* Properties.                                                             *)
(***************************************************************************)
messages == users_collection.usage_counts.messages
webSearches == users_collection.usage_counts.webSearches
privileged == current_user.isPremium \/ current_user.isAdmin

\* C1: for a metered user, a request that arrives when the stored messages
\* counter of the current UTC day is >= 15 is denied with 429 upgrade_required
\* and never writes the counter; when it is < 15 the request goes on, and it
\* increments the counter by exactly 1 (one $inc of 1, no other write).
C1_MessageLimit ==
    [][\A r \in Slots : (~privileged /\ req'[r] /= req[r]) =>
          /\ (req[r].pc = "idle" /\ users_collection.last_usage_reset >= utcnow) =>
                IF messages >= MESSAGE_LIMIT
                THEN /\ req'[r].pc = "done"
                     /\ req'[r].status = 429
                     /\ req'[r].response = "upgrade_required"
                ELSE /\ req'[r].pc = "inc"
                     /\ req'[r].status = 0
          /\ req[r].pc = "inc" =>
                /\ users_collection'.usage_counts.messages = messages + 1
                /\ req'[r].msg_incs = 1
          /\ req[r].pc \notin {"inc", "reset"} =>
                users_collection'.usage_counts.messages = messages
          /\ req'[r].status = 429 => req'[r].msg_incs = 0
          /\ (req'[r].pc = "done" /\ req'[r].status /= 429) => req'[r].msg_incs = 1
      ]_vars

\* a request was denied on the day of the last reset with the counter at the limit
C1_Witness ==
    \E r \in Slots :
        /\ req[r].status = 429
        /\ req[r].seen_at_limit
        /\ ~req[r].was_reset
        /\ req[r].today = users_collection.last_usage_reset
        /\ messages >= MESSAGE_LIMIT

\* C2: for a metered user whose requests are handled one at a time, a request
\* that finds last_usage_reset before today resets both counters to 0 and sets
\* last_usage_reset to today before the limit is evaluated, so it is allowed:
\* afterwards the counters hold this request's own increments only.
C2_RolloverReset ==
    \A r \in Slots : (~privileged /\ req[r].pc /= "idle") =>
        /\ req[r].pc /= "reset" => users_collection.last_usage_reset >= req[r].today
        /\ req[r].pc = "reset" => ~req[r].was_reset /\ req[r].status = 0
        /\ req[r].was_reset =>
              /\ users_collection.last_usage_reset = req[r].today
              /\ messages = req[r].msg_incs
              /\ webSearches = req[r].ws_incs
              /\ req[r].status /= 429
              /\ req[r].pc = "done" => req[r].msg_incs = 1

\* the counter had reached 15, and the first request of a later day was allowed
C2_Witness ==
    \E r \in Slots :
        /\ ~privileged
        /\ req[r].seen_at_limit
        /\ req[r].was_reset
        /\ req[r].pc = "done"
        /\ req[r].status = 200
        /\ messages = 1

\* C3: for a premium or admin user no request is denied, and the stored
\* counters and last_usage_reset stay as they were, whatever the mode.
C3_PrivilegedUnmetered ==
    privileged =>
        /\ users_collection = [usage_counts |-> [messages |-> 0, webSearches |-> 0],
                               last_usage_reset |-> 0]
        /\ \A r \in Slots :
              /\ req[r].status /= 429
              /\ req[r].msg_incs = 0
              /\ req[r].ws_incs = 0
              /\ ~req[r].was_reset

\* a privileged user's security_search request ran a web search on a later day
C3_Witness ==
    \E r \in Slots :
        /\ privileged
        /\ utcnow > users_collection.last_usage_reset
        /\ req[r].pc = "done"
        /\ req[r].status = 200
        /\ req[r].request_mode = "security_search"
        /\ req[r].search_calls = 1

\* C4: for a metered user (requests handled one at a time) a web search runs
\* only for a non-multimodal request in web_search or security_search mode that
\* found the stored webSearches counter < 1, and the counter then goes up by
\* exactly 1; a request that found it >= 1 is denied the search, runs none and
\* does not write the counter.
C4_WebSearchQuota ==
    \A r \in Slots : ~privileged =>
        /\ req[r].search_calls <= 1
        /\ req[r].ws_incs <= req[r].search_calls
        /\ req[r].search_calls = 1 =>
              /\ req[r].request_mode \in {"web_search", "security_search"}
              /\ ~req[r].is_multimodal
        /\ req[r].pc = "ws_inc" =>
              /\ req[r].search_calls = 1
              /\ req[r].ws_incs = 0
              /\ webSearches < WEB_SEARCH_LIMIT
        /\ (req[r].search_calls = 1 /\ req[r].pc /= "ws_inc") =>
              /\ req[r].ws_incs = 1
              /\ webSearches = 1
        /\ req[r].web_search_context = "search_denied" =>
              /\ req[r].search_calls = 0
              /\ req[r].ws_incs = 0
              /\ webSearches >= WEB_SEARCH_LIMIT
        /\ (req[r].pc \in {"primary", "secondary", "retry"} /\ wants_web_search(req[r])
                /\ SERPER_API_KEY) =>
              (req[r].search_calls = 1 \/ req[r].web_search_context = "search_denied")

\* a request was denied the web search after an earlier one had used it
C4_Witness ==
    \E r \in Slots :
        /\ ~privileged
        /\ req[r].pc = "done"
        /\ req[r].web_search_context = "search_denied"
        /\ webSearches = WEB_SEARCH_LIMIT

\* C5: after a message denial no provider is called, and after a web-search
\* denial no provider is called with a search-augmented prompt built from it.
C5_NoProviderCallOnDenial ==
    \A r \in Slots :
        /\ req[r].status = 429 =>
              req[r].primary_calls = 0 /\ req[r].secondary_calls = 0
        /\ req[r].web_search_context = "search_denied" =>
              /\ req[r].primary_prompt /= "search_augmented"
              /\ ~(req[r].secondary_calls > 0 /\ req[r].prompt_parts = <<"context_prompt">>)

\* C6: a request increments each counter at most once, and never after a
\* provider call of that request; a metered request that has called a provider
\* has already made its messages increment.
C6_IncrementsBeforeProviderCalls ==
    \A r \in Slots :
        /\ req[r].msg_incs <= 1
        /\ req[r].ws_incs <= 1
        /\ ~req[r].inc_after_call
        /\ (~privileged /\ req[r].primary_calls + req[r].secondary_calls > 0) =>
              req[r].msg_incs = 1
        /\ req[r].pc \in {"reset", "refind", "inc", "read", "ws_find", "search_web", "ws_inc"} =>
              req[r].primary_calls + req[r].secondary_calls = 0

\* a request made both increments and then every call of the provider chain
C6_Witness ==
    \E r \in Slots :
        /\ req[r].msg_incs = 1
        /\ req[r].ws_incs = 1
        /\ req[r].primary_calls = 1
        /\ req[r].secondary_calls = 2

\* C7: with NumReq requests of a metered user in flight the counters can pass
\* their limits, but messages never exceeds 15 + (NumReq - 1) and webSearches
\* never exceeds 1 + (NumReq - 1).
C7_BoundedOvershoot ==
    /\ messages <= MESSAGE_LIMIT + (NumReq - 1)
    /\ webSearches <= WEB_SEARCH_LIMIT + (NumReq - 1)

\* both counters are over their limits
C7_Witness ==
    /\ messages > MESSAGE_LIMIT
    /\ webSearches > WEB_SEARCH_LIMIT

\* C8: the reset to 0 is applied only while last_usage_reset is still before
\* the request's today.
C8_ConditionalReset ==
    [][\A r \in Slots : (req[r].pc = "reset" /\ req'[r].pc = "refind") =>
          users_collection.last_usage_reset < req[r].today]_vars

\* the parts of a prompt that come from the attachment ("" is the extracted text
\* of a document that could not be decoded)
attachment_parts == {"pdf_text", "docx_text", "image", ""}

\* C9: a request with an attachment is never auto-classified, never searches
\* the web, never calls the primary provider, and the prompt given to the
\* secondary provider holds the attachment's content.
C9_AttachmentIsMultimodal ==
    \A r \in Slots : req[r].file_data =>
        /\ ~req[r].auto_detected
        /\ req[r].search_calls = 0
        /\ req[r].primary_calls = 0
        /\ req[r].secondary_calls > 0 =>
              \E i \in 1..Len(req[r].prompt_parts) : req[r].prompt_parts[i] \in attachment_parts

has_security_term(user_message) ==
    \E k \in security_keywords : contains(lower(user_message), k)

has_code_token(user_message) ==
    \E k \in code_keywords : contains(user_message, k)

has_general_phrase(user_message) ==
    \E k \in general_search_keywords : contains(lower(user_message), k)

starts_with_greeting(user_message) ==
    \E k \in chat_keywords : startswith(strip(lower(user_message)), k)

\* C10 as stated: every non-multimodal chat message that contains a security
\* term is detected as security_search.
C10_SecurityTermWins ==
    \A r \in Slots :
        (req[r].mode = "chat" /\ ~req[r].is_multimodal
            /\ has_security_term(req[r].user_message)) =>
        req[r].request_mode = "security_search"

\* C10 amended: every non-multimodal chat message that contains a security term
\* and whose lower-cased, trimmed text does not start with hi, hello,
\* how are you, thanks or thank you is detected as security_search, also when
\* it holds a general-knowledge phrase, code-like tokens or more than 6 tokens.
C10_SecurityTermWinsUnlessGreeting ==
    \A r \in Slots :
        (req[r].mode = "chat" /\ ~req[r].is_multimodal
            /\ has_security_term(req[r].user_message)
            /\ ~starts_with_greeting(req[r].user_message)) =>
        /\ req[r].auto_detected
        /\ req[r].request_mode = "security_search"

\* a message with a security term, a general-knowledge phrase, a code-like token
\* and more than 6 tokens was detected as security_search
C10_Witness ==
    \E r \in Slots :
        /\ req[r].mode = "chat"
        /\ req[r].request_mode = "security_search"
        /\ has_security_term(req[r].user_message)
        /\ has_general_phrase(req[r].user_message)
        /\ has_code_token(req[r].user_message)
        /\ split_len(req[r].user_message) > 6

\* the mode of the first matching rule, in the order of the classifier's rules
first_matching_rule(user_message) ==
    IF starts_with_greeting(user_message) THEN "chat"
    ELSE IF has_security_term(user_message) THEN "security_search"
    ELSE IF has_code_token(user_message) THEN "code_security_scan"
    ELSE IF has_general_phrase(user_message) THEN "web_search"
    ELSE IF split_len(user_message) > 6 THEN "web_search"
    ELSE "chat"

\* C11: for mode chat and a non-multimodal message the resulting mode is that of
\* the first matching rule in the order greeting, security term, code-like
\* token, general-knowledge phrase, more than 6 tokens, else plain chat; a
\* message that starts with a greeting stays plain chat and gets no library
\* search and no web search (so no web-search quota is used), whatever else it
\* contains.
C11_FirstMatchingRule ==
    \A r \in Slots :
        (req[r].mode = "chat" /\ ~req[r].is_multimodal) =>
        /\ req[r].request_mode = first_matching_rule(req[r].user_message)
        /\ req[r].auto_detected = (req[r].request_mode /= "chat")
        /\ starts_with_greeting(req[r].user_message) =>
              /\ req[r].request_mode = "chat"
              /\ req[r].library_search_context = None
              /\ req[r].web_search_context = None
              /\ req[r].search_calls = 0
              /\ req[r].ws_incs = 0
              /\ req[r].primary_prompt \in {None, "plain"}

\* a greeting followed by a security term and a code-like token was answered as
\* plain chat
C11_Witness ==
    \E r \in Slots :
        /\ req[r].mode = "chat"
        /\ req[r].pc = "done"
        /\ starts_with_greeting(req[r].user_message)
        /\ has_security_term(req[r].user_message)
        /\ has_code_token(req[r].user_message)
        /\ req[r].request_mode = "chat"
        /\ req[r].primary_prompt = "plain"

explicit_modes == {"web_search", "security_search", "code_security_scan"}

\* C12: a non-multimodal request with mode web_search, security_search or
\* code_security_scan is not auto-detected and keeps its mode, whatever its
\* text holds; when the text is not blank, a code_security_scan request runs no
\* search and gives the providers the code-scan prompt, and a web_search or
\* security_search request goes through the web-search branch and gives the
\* providers the context prompt, the primary provider being tried first.
C12_ExplicitModeHonoured ==
    \A r \in Slots :
        (req[r].mode \in explicit_modes /\ ~req[r].is_multimodal) =>
        /\ ~req[r].auto_detected
        /\ req[r].request_mode = req[r].mode
        /\ req[r].library_search_context = None
        /\ req[r].mode = "code_security_scan" =>
              /\ req[r].search_calls = 0
              /\ req[r].web_search_context = None
              /\ req[r].primary_calls > 0 => req[r].primary_prompt = "code_scan"
              /\ req[r].secondary_calls > 0 => req[r].prompt_parts = <<"code_prompt">>
        /\ (req[r].mode /= "code_security_scan" /\ strip(req[r].user_message) /= <<>>) =>
              /\ req[r].pc \in {"primary", "secondary", "retry", "done"} =>
                    truthy(req[r].web_search_context)
              /\ req[r].primary_calls > 0 => req[r].primary_prompt = "search_augmented"
              /\ req[r].secondary_calls > 0 => req[r].prompt_parts = <<"context_prompt">>
        /\ (strip(req[r].user_message) /= <<>> /\ req[r].pc \in {"secondary", "retry"}) =>
              req[r].primary_calls = 1

\* a greeting sent in mode web_search was searched on the web and answered from
\* the search-augmented prompt
C12_Witness ==
    \E r \in Slots :
        /\ req[r].mode = "web_search"
        /\ req[r].user_message = T_greeting
        /\ req[r].pc = "done"
        /\ req[r].search_calls = 1
        /\ req[r].primary_prompt = "search_augmented"
        /\ req[r].response = "groq_text"

\* a provider call that gave no answer: None or "" from call_api, an exception
\* from generate_content
failed(a) == a.result \in {None, "", "raise"}

\* C13: in a non-multimodal text request whose primary call fails, the secondary
\* provider is tried next, and when its first attempt answers, the request ends
\* with exactly that answer after one primary and one secondary call.
C13_FallbackToSecondary ==
    \A r \in Slots :
        (/\ ~req[r].is_multimodal
         /\ Len(req[r].attempts) >= 1
         /\ req[r].attempts[1].provider = "primary"
         /\ failed(req[r].attempts[1])) =>
        /\ Len(req[r].attempts) = 1 =>
              /\ req[r].pc = "secondary"
              /\ \A c \in prompt_parts_choices(req[r]) : c.kind = "prompt" /\ c.parts /= <<>>
        /\ Len(req[r].attempts) >= 2 => req[r].attempts[2].provider = "secondary"
        /\ (Len(req[r].attempts) >= 2 /\ ~failed(req[r].attempts[2])) =>
              /\ req[r].pc = "done"
              /\ req[r].status = 200
              /\ req[r].response = req[r].attempts[2].result
              /\ Len(req[r].attempts) = 2
              /\ req[r].primary_calls = 1
              /\ req[r].secondary_calls = 1

\* the primary call returned None and the secondary provider's text was the reply
C13_Witness ==
    \E r \in Slots :
        /\ ~req[r].is_multimodal
        /\ req[r].pc = "done"
        /\ Len(req[r].attempts) = 2
        /\ req[r].attempts[1] = attempt("primary", TRUE, None)
        /\ req[r].attempts[2].provider = "secondary"
        /\ req[r].response = "gemini_text"

\* the replies of chat() that are fixed sentences of the source
fixed_replies ==
    {"upgrade_required", "internal_error", "please_ask", "no_transcript", "no_download", "apology"}

\* C14: a request in which every provider call failed (the primary call, if
\* any, and both calls of the secondary) ends with the fixed apology, and no
\* reply ever is the text of a provider exception: a reply is a fixed sentence
\* or the text a provider returned.
C14_FixedApology ==
    \A r \in Slots : req[r].pc = "done" =>
        /\ (/\ Len(req[r].attempts) >= 1
            /\ \A i \in 1..Len(req[r].attempts) : failed(req[r].attempts[i])) =>
              /\ req[r].response = "apology"
              /\ req[r].status = 200
              /\ req[r].secondary_calls = 2
        /\ req[r].response \in fixed_replies \cup {"groq_text", "gemini_text"}
        /\ req[r].response \notin fixed_replies =>
              /\ Len(req[r].attempts) >= 1
              /\ req[r].response = req[r].attempts[Len(req[r].attempts)].result

\* the primary call returned None, both calls of the secondary raised, and the
\* reply is the apology
C14_Witness ==
    \E r \in Slots :
        /\ req[r].pc = "done"
        /\ Len(req[r].attempts) = 3
        /\ req[r].attempts[1].result = None
        /\ req[r].attempts[2].result = "raise"
        /\ req[r].attempts[3].result = "raise"
        /\ req[r].response = "apology"

\* the last provider call of a request
last_attempt(q) == q.attempts[Len(q.attempts)]

\* C15: a request makes at most one primary call and at most two secondary
\* calls; the second secondary call is made exactly when the first one failed,
\* it sends the prompt parts without the conversation history, and when it
\* fails too the request ends with the fixed apology.
C15_RetryOnce ==
    \A r \in Slots :
        /\ req[r].primary_calls <= 1
        /\ req[r].secondary_calls <= 2
        /\ Len(req[r].attempts) = req[r].primary_calls + req[r].secondary_calls
        /\ req[r].pc = "retry" <=>
              /\ req[r].secondary_calls = 1
              /\ last_attempt(req[r]).provider = "secondary"
              /\ failed(last_attempt(req[r]))
        /\ req[r].secondary_calls = 2 =>
              /\ req[r].pc = "done"
              /\ failed(req[r].attempts[Len(req[r].attempts) - 1])
              /\ req[r].attempts[Len(req[r].attempts) - 1].provider = "secondary"
              /\ last_attempt(req[r]).provider = "secondary"
              /\ ~last_attempt(req[r]).history
              /\ req[r].response =
                    IF failed(last_attempt(req[r])) THEN "apology"
                    ELSE last_attempt(req[r]).result

\* the first secondary call was made with the history and failed, the retry was
\* made without it and answered
C15_Witness ==
    \E r \in Slots :
        /\ req[r].pc = "done"
        /\ req[r].secondary_calls = 2
        /\ req[r].attempts[Len(req[r].attempts) - 1] = attempt("secondary", TRUE, "raise")
        /\ last_attempt(req[r]) = attempt("secondary", FALSE, "gemini_text")
        /\ req[r].response = "gemini_text"

\* C16: the provider calls of a request are made in chain order (primary, then
\* secondary), every call but the last one failed, a call that returns a
\* non-empty text ends the request with exactly that text as the reply, and a
\* primary call that returns None or the empty string is followed by the
\* secondary provider.
C16_FirstAnswerWins ==
    \A r \in Slots :
        /\ \A i \in 1..(Len(req[r].attempts) - 1) :
              /\ failed(req[r].attempts[i])
              /\ req[r].attempts[i].provider = "secondary" =>
                    req[r].attempts[i + 1].provider = "secondary"
        /\ (Len(req[r].attempts) >= 1 /\ ~failed(last_attempt(req[r]))) =>
              /\ req[r].pc = "done"
              /\ req[r].status = 200
              /\ req[r].response = last_attempt(req[r]).result
              /\ req[r].ai_response = req[r].response
        /\ (/\ Len(req[r].attempts) >= 1
            /\ last_attempt(req[r]).provider = "primary"
            /\ failed(last_attempt(req[r]))) =>
              req[r].pc = "secondary"

\* the primary returned the empty string and the reply is the secondary's text
C16_Witness ==
    \E r \in Slots :
        /\ req[r].pc = "done"
        /\ Len(req[r].attempts) = 2
        /\ req[r].attempts[1].provider = "primary"
        /\ req[r].attempts[1].result = ""
        /\ req[r].attempts[2].result = "gemini_text"
        /\ req[r].response = "gemini_text"

\* C17: without GROQ_API_KEY no call is issued to the primary provider, in any
\* text mode.
C17_NoPrimaryCallWithoutKey ==
    ~GROQ_API_KEY => \A r \in Slots : req[r].primary_calls = 0

\* C18: with the search credential configured, an allowed request of a metered
\* user with the text "what is a zero-day exploit", no attachment and mode
\* chat, made when no web search has been used today, is classified
\* security_search, runs the web search, raises webSearches from 0 to 1 and
\* messages by 1, and gives the provider the context prompt built from the
\* search results.
C18_EndToEnd ==
    \A r \in Slots :
        (/\ ~privileged
         /\ SERPER_API_KEY
         /\ req[r].pc = "done"
         /\ req[r].status = 200
         /\ req[r].mode = "chat"
         /\ req[r].user_message = T_security
         /\ ~req[r].file_data
         /\ webSearches - req[r].ws_incs = 0) =>
        /\ req[r].request_mode = "security_search"
        /\ req[r].msg_incs = 1
        /\ req[r].search_calls = 1
        /\ req[r].ws_incs = 1
        /\ webSearches = 1
        /\ req[r].primary_prompt = "search_augmented"
        /\ truthy(req[r].web_search_context)

\* C19: every request ends with the 429 quota denial or with a response text
\* and status 200; no exception of a collaborator leaves the handler.
C19_AlwaysWellFormedReply ==
    \A r \in Slots : req[r].pc = "done" =>
        \/ req[r].status = 429 /\ req[r].response = "upgrade_required"
        \/ req[r].status = 200 /\ req[r].response \notin {None, "uncaught_exception"}

\* C20: an answered request that carries a PDF, DOCX or image attachment has
\* called the secondary provider and does not end in the internal-error reply,
\* whether or not the attachment's bytes could be decoded.
C20_BadAttachmentNotFatal ==
    \A r \in Slots :
        (/\ req[r].pc = "done"
         /\ req[r].status = 200
         /\ req[r].file_data
         /\ \E k \in {"pdf", "word", "image"} : in_file_type(k, req[r].file_type)) =>
        /\ req[r].response /= "internal_error"
        /\ req[r].secondary_calls >= 1

\* C21: when the web search fails, the text that search_web returns is one
\* fixed string, the same whatever the exception was.
C21_FixedSearchSentinel ==
    \A r \in Slots : \A e1, e2 \in SerperExceptions :
        req[r].web_search_context = search_web_error(e1) =>
            req[r].web_search_context = search_web_error(e2)

\* the whitespace tokens of a query: its maximal runs of non-whitespace
tokens(query) ==
    {SubSeq(query, i, j) : <<i, j>> \in
        {p \in (1..Len(query)) \X (1..Len(query)) :
            /\ p[1] <= p[2]
            /\ \A h \in p[1]..p[2] : query[h] \notin Whitespace
            /\ p[1] = 1 \/ query[p[1] - 1] \in Whitespace
            /\ p[2] = Len(query) \/ query[p[2] + 1] \in Whitespace}}

\* the item holds every token of the query, letters compared without case
holds_every_token(item, query) ==
    \A k \in tokens(query) : contains(lower(item.extracted_text), lower(k))

\* C22: a search that returns gives the user's items that hold every token of
\* the query, in any order and letter case: the first 3 of them, or None when
\* there is none.
C22_LibrarySearchIsAnd ==
    (library_search.user_id /= None /\ library_search.kind /= "raise") =>
        LET holding(i) ==
                /\ library_collection[i].user_id = library_search.user_id
                /\ holds_every_token(library_collection[i], library_search.query)
            expected == SelectSeq([i \in 1..Len(library_collection) |-> i], holding)
        IN  /\ Len(library_search.items) <= LIBRARY_SEARCH_LIMIT
            /\ library_search.items =
                  SubSeq(expected, 1, IF Len(expected) < LIBRARY_SEARCH_LIMIT
                                      THEN Len(expected) ELSE LIBRARY_SEARCH_LIMIT)
            /\ (library_search.kind = None) <=> (expected = <<>>)

\* the turns of the conversation the user saved last
last_saved_turns ==
    LET mine == {i \in 1..Len(conversations_collection) :
                    conversations_collection[i].user_id = "u1"}
    IN  IF mine = {} THEN <<>>
        ELSE LET last == CHOOSE i \in mine : \A j \in mine :
                             conversations_collection[j].timestamp
                                 <= conversations_collection[i].timestamp
             IN  conversations_collection[last].messages

\* C23: the history holds the last 10 turns (or all, if fewer) of the
\* conversation the user saved last, in their order, or nothing; it holds nothing
\* when the request is temporary or the user has no conversation; and the
\* user/model and user/assistant encodings hold the same turns in the same
\* order, the second one followed by the message of the request.
C23_HistoryWindow ==
    \A r \in Slots : req[r].openai_history /= <<>> =>
        LET g == req[r].gemini_history
            o == req[r].openai_history
            all == last_saved_turns
            n == IF Len(all) < HISTORY_LIMIT THEN Len(all) ELSE HISTORY_LIMIT
        IN  /\ Len(g) \in {0, n}
            /\ Len(g) <= HISTORY_LIMIT
            /\ \A i \in 1..Len(g) :
                  /\ g[i].parts = <<all[Len(all) - Len(g) + i].text>>
                  /\ g[i].role = IF all[Len(all) - Len(g) + i].sender = "user"
                                 THEN "user" ELSE "model"
            /\ (req[r].is_temporary \/ all = <<>>) => g = <<>>
            /\ Len(o) = Len(g) + 1
            /\ o[Len(o)] = [role |-> "user", content |-> req[r].user_message]
            /\ \A i \in 1..Len(g) :
                  /\ o[i].content = g[i].parts[1]
                  /\ o[i].role = IF g[i].role = "user" THEN "user" ELSE "assistant"

\* a request was given the last 10 of the 12 turns of the conversation saved
\* last, while an older conversation of the user holds other turns
C23_Witness ==
    \E r \in Slots :
        /\ Len(req[r].gemini_history) = HISTORY_LIMIT
        /\ Len(last_saved_turns) > HISTORY_LIMIT
        /\ req[r].gemini_history[1].parts = <<last_saved_turns[Len(last_saved_turns) - HISTORY_LIMIT + 1].text>>
        /\ \E i \in 1..Len(conversations_collection) :
              /\ conversations_collection[i].user_id = "u1"
              /\ conversations_collection[i].messages /= last_saved_turns

\* the message holds a YouTube link (app.py:883, 979)
has_youtube_link(user_message) ==
    contains(user_message, youtube_com) \/ contains(user_message, youtu_be)

\* C24: a request whose message holds a YouTube link calls no provider unless
\* the transcript was fetched, and then the prompt is made of the transcript;
\* without a transcript the reply is the "couldn't get the transcript" message.
C24_NoTranscriptNoProviderCall ==
    \A r \in Slots :
        (req[r].pc \in {"retry", "done"} /\ req[r].status /= 429
            /\ has_youtube_link(req[r].user_message)) =>
        /\ req[r].primary_calls = 0
        /\ req[r].secondary_calls > 0 => req[r].prompt_parts = <<"transcript">>
        /\ req[r].secondary_calls = 0 => req[r].response = "no_transcript"

\* C25: a library item is "completed" only with a summary that was produced (or
\* when there is nothing to summarize); after a failed summary task it is still
\* "pending".
C25_PendingUnlessSummarized ==
    \A i \in 1..Len(library_collection) :
        library_collection[i].ai_summary_status = "completed" =>
            library_collection[i].ai_summary \in {"summary", "Not applicable."}

\* C26: in a request that reached the secondary provider, the prompt starts
\* with the default "Describe this image." instruction iff the attachment is an
\* image and the message is empty or blank; with an image and a non-blank
\* message the prompt is the message followed by the image.
C26_DefaultImageInstruction ==
    \A r \in Slots : req[r].secondary_calls > 0 =>
        LET image == req[r].file_data /\ in_file_type("image", req[r].file_type)
            blank == strip(req[r].user_message) = <<>>
        IN  /\ (req[r].prompt_parts[1] = "Describe this image.") <=> (image /\ blank)
            /\ (image /\ ~blank) => req[r].prompt_parts = <<"user_message", "image">>

\* the message holds a code-like token when letter case is ignored
has_code_token_in_any_case(user_message) ==
    \E k \in code_keywords : contains(lower(user_message), lower(k))

\* C27 as stated: a chat message is detected as code_security_scan only if it
\* holds a code-like token in the listed letter case, and a message with a
\* security term in any letter case is detected as security_search.
C27_CaseSensitiveCodeTokens ==
    \A r \in Slots :
        (req[r].mode = "chat" /\ ~req[r].is_multimodal) =>
        /\ req[r].request_mode = "code_security_scan" => has_code_token(req[r].user_message)
        /\ has_security_term(req[r].user_message) => req[r].request_mode = "security_search"

\* C27 amended: a chat message is detected as code_security_scan only if it
\* holds a code-like token in the listed letter case; the greeting, security
\* and general-phrase rules ignore letter case, and a message with a security
\* term in any letter case that does not start with a greeting is detected as
\* security_search.
C27_CaseSensitiveCodeTokensUnlessGreeting ==
    \A r \in Slots :
        (req[r].mode = "chat" /\ ~req[r].is_multimodal) =>
        LET m == req[r].user_message
        IN  /\ req[r].request_mode = "code_security_scan" => has_code_token(m)
            /\ starts_with_greeting(m) => req[r].request_mode = "chat"
            /\ (has_security_term(m) /\ ~starts_with_greeting(m)) =>
                  req[r].request_mode = "security_search"
            /\ (has_general_phrase(m) /\ ~starts_with_greeting(m)
                    /\ ~has_security_term(m) /\ ~has_code_token(m)) =>
                  req[r].request_mode = "web_search"

\* a message whose only code-like token is in another letter case than the
\* listed one was answered as plain chat
C27_Witness ==
    \E r \in Slots :
        /\ req[r].mode = "chat"
        /\ req[r].pc = "done"
        /\ has_code_token_in_any_case(req[r].user_message)
        /\ ~has_code_token(req[r].user_message)
        /\ req[r].request_mode = "chat"
        /\ req[r].primary_prompt = "plain"

\* C28: with the requests handled one at a time, messages stays within 0..15
\* and webSearches within 0..1; a step that leaves last_usage_reset as it is
\* does not lower a counter, and last_usage_reset never moves backwards (a
\* counter goes down only in the reset that moves it forward).
C28_SerialCounterBounds ==
    /\ [](/\ messages \in 0..MESSAGE_LIMIT
          /\ webSearches \in 0..WEB_SEARCH_LIMIT)
    /\ [][/\ users_collection'.last_usage_reset >= users_collection.last_usage_reset
          /\ users_collection'.last_usage_reset = users_collection.last_usage_reset =>
                /\ users_collection'.usage_counts.messages >= messages
                /\ users_collection'.usage_counts.webSearches >= webSearches
          /\ users_collection'.last_usage_reset <= utcnow]_vars

\* on a later day, after the reset, both counters are at their limits again
C28_Witness ==
    /\ ~privileged
    /\ users_collection.last_usage_reset > 0
    /\ messages = MESSAGE_LIMIT
    /\ webSearches = WEB_SEARCH_LIMIT

\* the web search failed: search_web returned the text of an error
search_failed(q) ==
    \E e \in SerperExceptions : q.web_search_context = search_web_error(e)

\* C29: for a metered user a request has incremented webSearches iff it has
\* called search_web, the increment following the call at once: there is no
\* call and no increment when the search credential is missing (the request
\* goes on to the providers with a fixed text) or when the search is denied,
\* and the increment is made also when the search failed.
C29_SearchCountedIffCalled ==
    \A r \in Slots : ~privileged =>
        /\ req[r].ws_incs = (IF req[r].pc = "ws_inc" THEN 0 ELSE req[r].search_calls)
        /\ req[r].pc = "ws_inc" => req[r].search_calls = 1
        /\ req[r].web_search_context \in {"search_disabled", "search_denied"} =>
              /\ req[r].search_calls = 0
              /\ req[r].ws_incs = 0
              /\ req[r].pc = "done" =>
                    /\ req[r].status = 200
                    /\ req[r].primary_calls + req[r].secondary_calls > 0
        /\ (~SERPER_API_KEY /\ wants_web_search(req[r])
                /\ req[r].pc \in {"primary", "secondary", "retry"}) =>
              req[r].web_search_context = "search_disabled"
        /\ (search_failed(req[r]) /\ req[r].pc /= "ws_inc") => req[r].ws_incs = 1

\* a request whose web search failed has used the user's daily web search
C29_Witness ==
    \E r \in Slots :
        /\ ~privileged
        /\ req[r].pc = "done"
        /\ search_failed(req[r])
        /\ req[r].ws_incs = 1
        /\ webSearches = 1

\* C30: search_library is called only for a non-multimodal request with mode
\* chat that auto-detection escalated to web_search or security_search, and
\* once for each of them; every other request has no library context, so no
\* prompt of it holds one.
C30_LibraryOnlyOnEscalation ==
    \A r \in Slots :
        LET escalated == /\ req[r].mode = "chat"
                         /\ ~req[r].is_multimodal
                         /\ req[r].auto_detected
                         /\ req[r].request_mode \in {"web_search", "security_search"}
        IN  /\ req[r].library_calls = (IF escalated THEN 1 ELSE 0)
            /\ req[r].library_calls = 0 => req[r].library_search_context = None
            /\ (req[r].mode \in explicit_modes \/ req[r].is_multimodal
                    \/ req[r].request_mode \in {"chat", "code_security_scan"}) =>
                  /\ req[r].library_calls = 0
                  /\ req[r].library_search_context = None

\* an escalated chat request found library items and was answered from the
\* context prompt
C30_Witness ==
    \E r \in Slots :
        /\ req[r].pc = "done"
        /\ req[r].mode = "chat"
        /\ req[r].library_calls = 1
        /\ req[r].library_search_context = "library_snippets"
        /\ req[r].primary_prompt = "search_augmented"
        /\ req[r].response = "groq_text"

\* the cookie of browser b logs the user in and holds the stored session_id
live_session(b) ==
    /\ session[b].user_id /= None
    /\ session[b].session_id = account.session_id

\* the cookie of browser b logs the user in with a session_id that is no longer
\* the stored one
earlier_session(b) ==
    /\ session[b].user_id /= None
    /\ session[b].session_id /= account.session_id

\* C31: a user has at most one live session.  At most one browser holds a
\* cookie that logs the user in with the stored session_id; every successful
\* login and every logout-all stores a session_id that differs from the one
\* stored before and that no cookie holds yet; and the next request a browser
\* makes with an earlier session is answered by the redirect to the login page
\* with the user logged out of that browser, and writes nothing to the account.
C31_OneLiveSession ==
    /\ [](Cardinality({b \in Browsers : live_session(b)}) <= 1)
    /\ [][\A b \in Browsers :
            /\ (/\ ready(b)
                /\ auth_req'[b].pc \in {"login_respond", "logout_all_respond"})
               => /\ account'.session_id /= account.session_id
                  /\ account'.session_id = auth_req'[b].new_session_id
                  /\ \A c \in Browsers : session[c].session_id /= account'.session_id
            /\ (/\ auth_req[b].pc = "login_respond"
                /\ auth_req'[b].pc = "done")
               => /\ session'[b].user_id /= None
                  /\ session'[b].session_id = auth_req[b].new_session_id
            /\ (/\ ready(b)
                /\ auth_req'[b] /= auth_req[b]
                /\ earlier_session(b))
               => /\ auth_req'[b].pc = "done"
                  /\ auth_req'[b].status = 302
                  /\ auth_req'[b].response = "logged_out_from_another_device"
                  /\ session'[b].user_id = None
                  /\ account' = account]_vars

\* a browser was logged out by its request with an earlier session while
\* another browser holds the live session
C31_Witness ==
    \E b \in Browsers, c \in Browsers :
        /\ b /= c
        /\ auth_req[b].response = "logged_out_from_another_device"
        /\ session[b].user_id = None
        /\ session[b].session_id /= Absent
        /\ live_session(c)
        /\ auth_req[c].response = "user_info"

\* the reset token issued last: a later draw has the larger number
latest_token ==
    IF issued_tokens = {} THEN Absent
    ELSE CHOOSE t \in issued_tokens : \A u \in issued_tokens : u <= t

\* token t was issued less than 1 hour ago and has not changed the password yet
fresh(t) ==
    /\ t \in issued_tokens
    /\ auth_log.resets[t] = 0
    /\ clock < auth_log.issued[t] + timedelta_hours(RESET_TOKEN_HOURS)

\* C32: a password-reset token changes the password at most once and only
\* within 1 hour of being issued.  No token changes the password twice; when
\* reset_password changes the password, the token of the request is less than
\* 1 hour old and has not changed the password before, and the change removes
\* the stored token; and a reset request that arrives with a token that was
\* used before, is 1 hour old or more, or was replaced by a newer token is
\* rejected and writes nothing.
C32_ResetTokenOnceWithinHour ==
    /\ [](\A t \in issued_tokens : auth_log.resets[t] <= 1)
    /\ [][\A b \in Browsers :
            /\ (/\ auth_req[b].pc = "reset_update"
                /\ auth_req'[b].pc = "done")
               => /\ fresh(auth_req[b].token)
                  /\ account'.password = auth_req[b].new_password
                  /\ account'.password_reset_token = Absent
            /\ (/\ ready(b)
                /\ auth_req'[b] /= auth_req[b]
                /\ auth_req'[b].route = "reset_password"
                /\ auth_req'[b].token /= Absent
                /\ \/ ~fresh(auth_req'[b].token)
                   \/ auth_req'[b].token /= latest_token)
               => /\ auth_req'[b].pc = "done"
                  /\ auth_req'[b].status = 400
                  /\ auth_req'[b].response = "invalid_or_expired_token"
                  /\ account' = account]_vars

====
